---- MODULE Spec2Model ----
(***************************************************************************)
(* Model of the IMDB ingestion pipeline (src/ingestion): the command line  *)
(* entry point, run_pipeline, process_table and the stage primitives of    *)
(* utils.py, with the local cache folders, the process exit status and the *)
(* BigQuery dataset as state.                                              *)
(*                                                                         *)
(* The orchestrator is single-threaded, so one process_table call is one   *)
(* atomic step; what the network, pandas and the cloud services answer is  *)
(* drawn per call from the outcomes the primitives can produce.            *)
(***************************************************************************)
EXTENDS Naturals, Integers, Sequences, FiniteSets, TLC

\* --------------------------------------------------------------- bounds

\* Longest --tables list the command line is given.
MaxTables == 2

\* Concurrent callers of load_to_bigquery (runs at work on one project), and
\* the load_to_bigquery calls each of them makes.
NumCallers == 2
MaxLoads == 2

\* Rows of the delimited file that is converted.
MaxRows == 2

\* Characters of a table name given on the command line.
MaxNameLen == 3

\* Rows a query of the chat agent returns.
MaxSqlRows == 2

\* Tool calls the model issues during one call of run_agent.
MaxToolCalls == 3

\* add_query calls made on one ConversationStats object.
MaxQueries == 3

\* Times the clock moves on during the life of that object.
MaxTicks == 2

\* ------------------------------------------------------------ constants

\* Config.tables, cut to its first two entries (the catalogue holds seven;
\* tables are processed alike, so two stand for them).
Config_tables == <<"name.basics", "title.akas">>

\* The table names a command line may give.
Names == {Config_tables[k] : k \in 1..Len(Config_tables)}

\* What the run may find in its cache folders: per table a raw file that an
\* earlier run finished or none, and a columnar file or none. (A download
\* that fails in the run leaves a third kind of raw file, "partial".)
RawStates == {"absent", "complete"}
ParquetStates == {"absent", "present"}

\* What the services behind the stage primitives can answer to one call.
DownloadOutcomes == {"ok", "http_error", "interrupted"}
ConvertOutcomes == {"ok", "error"}
UploadOutcomes == {"ok", "error"}
LoadOutcomes == {"ok", "ensure_error", "job_error", "stats_error"}

\* What the services answer during one process_table call. A stage after
\* the first that fails is not called, so its answer is left at "ok".
Envs ==
    {e \in [download : DownloadOutcomes, convert : ConvertOutcomes,
            upload : UploadOutcomes, load : LoadOutcomes] :
        /\ e.download # "ok" => e.convert = "ok"
        /\ (e.download # "ok" \/ e.convert # "ok") => e.upload = "ok"
        /\ (e.download # "ok" \/ e.convert # "ok" \/ e.upload # "ok") =>
               e.load = "ok"}

\* The settings Config.validate reads, as resolved at import: a valid
\* configuration and one of each kind of invalid one.
ValidConfig == [project_id |-> "ensai-2026", bucket_name |-> "imdb-data-id2608",
                credentials_exists |-> TRUE]
Configs == {ValidConfig,
            [ValidConfig EXCEPT !.project_id = ""],
            [ValidConfig EXCEPT !.bucket_name = "your-bucket-name"],
            [ValidConfig EXCEPT !.credentials_exists = FALSE]}

\* Non-empty table lists of at most MaxTables names, and the empty one.
TableLists == UNION {[1..n -> Names] : n \in 0..MaxTables}

Callers == 1..NumCallers

NoResults == [t \in {} |-> FALSE]
NoRun == [tables |-> <<>>, results |-> NoResults]
NoArgs == [tables |-> <<>>, force_download |-> FALSE, skip_bigquery |-> FALSE,
           fail_fast |-> FALSE, cleanup |-> FALSE, dry_run |-> FALSE]
ArgSets == [tables : TableLists, force_download : BOOLEAN, skip_bigquery : BOOLEAN,
            fail_fast : BOOLEAN, cleanup : BOOLEAN, dry_run : BOOLEAN]

\* ---------------------------------------------------------------- state

VARIABLES
    pc,             \* "import", "main", "loop", "summary", "exit"
    config,         \* the Config class attributes validate() reads
    log_dir,        \* whether the folder of Config.log_file exists
    args,           \* the command line options of main
    tables,         \* run_pipeline: tables or Config.tables
    i,              \* run_pipeline: position of the next table (1-based)
    results,        \* run_pipeline: the results dict, table -> bool
    raw,            \* raw_data_folder: table -> state of <table>.tsv.gz
    parquet,        \* parquet_data_folder: table -> state of <id>.parquet
    dataset,        \* whether the bronze dataset exists in BigQuery
    gcs,            \* the bucket: table -> times its object was written (0: none)
    bq,             \* the bronze tables: table -> the object generations loaded
    cloud0,         \* history: gcs, bq and dataset as the process found them
    returned,       \* run_pipeline's return value, -1 while it has none
    exit_code,      \* the process exit status, -1 while it runs
    cleanup_called, \* history: cleanup_local_files was invoked in this run
    trace,          \* history: one record per process_table call of this run
    raw0,           \* history: raw as the run found it
    parquet0,       \* history: parquet as the run found it
    reinvoked,      \* history: this is the run after a first, finished one
    prev,           \* history: the table list and results dict of that first run
    lpc,            \* per concurrent caller: its place in load_to_bigquery
    lcalls,         \* per concurrent caller: load_to_bigquery calls begun
    lresult,        \* per concurrent caller: how its latest call ended
    lseen,          \* history, per caller: what get_dataset told its latest call
    lrequests,      \* history, per caller: create requests of its latest call
    created,        \* history: create requests that created the dataset
    ljob,           \* per caller: the state of the load job of its latest call
    conv,           \* one conversion: the delimited column, the columnar
                    \* file written from it, the rows read back
    naming,         \* two table names and what Config derives from each
    sqlcall,        \* one execute_sql call: what the client does, what returns
    seqrun,         \* one run of the loop of run_pipeline, stage call by
                    \* stage call
    agent,          \* one run_agent call: its locals, its message list, what
                    \* it returned, and the model responses it received
    stats           \* one ConversationStats object and the add_query calls
                    \* made on it

vars == <<pc, config, log_dir, args, tables, i, results, raw, parquet, dataset,
          gcs, bq, cloud0,
          returned, exit_code, cleanup_called, trace, raw0, parquet0,
          reinvoked, prev, lpc, lcalls, lresult, lseen, lrequests, created,
          ljob,
          conv, naming, sqlcall, seqrun, agent, stats>>

\* The state of the concurrent callers of load_to_bigquery.
loadVars == <<lpc, lcalls, lresult, lseen, lrequests, created, ljob>>

pureVars == <<conv, naming, sqlcall, seqrun, agent, stats>>

\* The state of the command, the dataset aside.
pipeVars == <<pc, config, log_dir, args, tables, i, results, raw, parquet,
              gcs, bq, cloud0,
              returned, exit_code, cleanup_called, trace, raw0, parquet0,
              reinvoked, prev>>

\* ------------------------------------------------------ config.py

\* The values of the settings of .env.template, which start with "your-".
Placeholders == {"your-project-id", "your-bucket-name"}

\* str.startswith("your-") on the values a setting takes here.
startswith_your(value) == value \in Placeholders

\* Config.validate: the error it raises, "ok" when it raises none.
validate(cfg) ==
    LET missing(value) == value = "" \/ startswith_your(value)
        missing_vars == {v \in {"GCP_PROJECT_ID", "GCS_BUCKET_NAME"} :
                            missing(IF v = "GCP_PROJECT_ID" THEN cfg.project_id
                                    ELSE cfg.bucket_name)}
    IN  IF missing_vars # {} THEN "ValueError"
        ELSE IF ~cfg.credentials_exists THEN "FileNotFoundError"
        ELSE "ok"

\* Table names, character by character: letters, the dot of the catalogue
\* names and the underscore.
NameChars == {"t", "b", ".", "_"}
NameStrings == UNION {[1..n -> NameChars] : n \in 1..MaxNameLen}

\* str.replace(old, new) on a string of characters.
replace(s, old, new) == [k \in DOMAIN s |-> IF s[k] = old THEN new ELSE s[k]]

\* Config.get_table_filename: f"{table}.tsv.gz".
get_table_filename(table) == table \o <<".tsv.gz">>

\* A slip in get_table_id: the dots are dropped, not replaced.
get_table_id_drops_dots(table) == SelectSeq(table, LAMBDA ch : ch # ".")

\* Config.get_table_id: table.replace(".", "_").
get_table_id(table) == replace(table, ".", "_")

\* Config.get_gcs_path: f"imdb/{table_id}/{table_id}.parquet".
get_gcs_path(table) ==
    LET table_id == get_table_id(table)
    IN  <<"imdb/">> \o table_id \o <<"/">> \o table_id \o <<".parquet">>

\* ------------------------------------------------------------- utils.py

\* download_file(url, destination): the destination file afterwards and
\* whether the call raised. requests.get and raise_for_status raise before
\* the destination is opened; open(destination, "wb") creates or truncates
\* the file, and an error while streaming leaves what was written so far.
download_file(file, outcome) ==
    CASE outcome = "http_error"  -> [file |-> file, raised |-> TRUE]
      [] outcome = "interrupted" -> [file |-> "partial", raised |-> TRUE]
      [] OTHER                   -> [file |-> "complete", raised |-> FALSE]

\* convert_to_parquet(tsv_path, parquet_path): read_csv raises on a missing
\* file, on a gzip stream that ends early and on malformed text; the
\* columnar file is written only after the read succeeded.
convert_to_parquet(tsv, pq, outcome) ==
    IF tsv = "complete" /\ outcome = "ok"
    THEN [file |-> "present", raised |-> FALSE]
    ELSE [file |-> pq, raised |-> TRUE]

\* A slip in the upload: an object already at the path is left alone.
upload_to_gcs_keeps_existing(pq, blob, outcome) ==
    IF pq = "present" /\ outcome = "ok"
    THEN [blob |-> IF blob = 0 THEN 1 ELSE blob, raised |-> FALSE]
    ELSE [blob |-> blob, raised |-> TRUE]

\* upload_to_gcs(local_path, gcs_path): blob.upload_from_filename writes the
\* object at gcs_path whether or not one is there (blob counts the writes),
\* or the call raises and the object stays as it was.
upload_to_gcs(pq, blob, outcome) ==
    IF pq = "present" /\ outcome = "ok"
    THEN [blob |-> blob + 1, raised |-> FALSE]
    ELSE [blob |-> blob, raised |-> TRUE]

\* A slip in the load: the rows are added whatever the write_disposition.
write_table_appends(rows, new, write_disposition) == Append(rows, new)

\* The load job's write_disposition, on a table that holds rows and an
\* object generation new to load.
write_table(rows, new, write_disposition) ==
    CASE write_disposition = "WRITE_TRUNCATE" -> <<new>>
      [] write_disposition = "WRITE_APPEND"   -> Append(rows, new)
      [] OTHER                                -> IF rows = <<>> THEN <<new>> ELSE rows

\* load_to_bigquery, with no other caller at work: ensure_dataset_exists
\* creates the dataset when it is missing, then the load job runs and is
\* waited for; a job that fails leaves the table as it was. The get_table
\* call after a job that is done can raise as well, the table being written.
load_to_bigquery(ds, rows, blob, write_disposition, outcome) ==
    CASE outcome = "ensure_error" -> [dataset |-> ds, rows |-> rows, raised |-> TRUE]
      [] outcome = "job_error"    -> [dataset |-> TRUE, rows |-> rows, raised |-> TRUE]
      [] outcome = "stats_error"  -> [dataset |-> TRUE,
                                      rows |-> write_table(rows, blob, write_disposition),
                                      raised |-> TRUE]
      [] OTHER                    -> [dataset |-> TRUE,
                                      rows |-> write_table(rows, blob, write_disposition),
                                      raised |-> FALSE]

\* A slip in the cleanup: keep_parquet is not looked at.
cleanup_local_files_drops_parquet(keep_parquet, fs) ==
    [raw     |-> [t \in DOMAIN fs.raw |-> "absent"],
     parquet |-> [t \in DOMAIN fs.parquet |-> "absent"]]

\* cleanup_local_files(keep_parquet): every *.tsv.gz of the raw folder is
\* unlinked, and every *.parquet unless keep_parquet.
cleanup_local_files(keep_parquet, fs) ==
    [raw     |-> [t \in DOMAIN fs.raw |-> "absent"],
     parquet |-> IF keep_parquet THEN fs.parquet
                 ELSE [t \in DOMAIN fs.parquet |-> "absent"]]

\* The token of the IMDB files for a missing value: backslash, N.
NullSentinel == "\\N"

\* The strings pandas.read_csv reads as missing by itself, which
\* keep_default_na=True keeps next to na_values.
DefaultNA ==
    {"", "#N/A", "#N/A N/A", "#NA", "-1.#IND", "-1.#QNAN", "-NaN", "-nan",
     "1.#IND", "1.#QNAN", "<NA>", "N/A", "NA", "NULL", "NaN", "None", "n/a",
     "nan", "null"}

\* The cells a column is drawn from: the sentinel, words, and two spellings
\* of one integer.
Cells == {NullSentinel, "NA", "None", "null", "nm1", "7", "007"}
IntLiterals == {"7", "007"}
int(cell) == CASE cell = "7" -> 7 [] cell = "007" -> 7 [] OTHER -> 0

Columns == UNION {[1..n -> Cells] : n \in 1..MaxRows}

\* A value of a data frame: missing, or what it prints as.
Absent == [absent |-> TRUE, text |-> ""]
Value(text) == [absent |-> FALSE, text |-> text]

\* read_csv, na_values=r"\N" with keep_default_na=True: the cells read as
\* missing.
is_na(cell) == cell = NullSentinel \/ cell \in DefaultNA

\* read_csv, the type inferred for a column from its cells (low_memory=False:
\* from all of them): integers when all are, floats when some are missing,
\* else Python strings.
infer_dtype(column) ==
    LET present == {k \in DOMAIN column : ~is_na(column[k])}
    IN  IF \E k \in present : column[k] \notin IntLiterals THEN "object"
        ELSE IF present = DOMAIN column THEN "int64"
        ELSE "float64"

\* convert_to_parquet, pd.read_csv: the data frame of one column.
read_csv(column) ==
    LET dtype == infer_dtype(column)
    IN  [dtype  |-> dtype,
         values |-> [k \in DOMAIN column |->
                        IF is_na(column[k]) THEN Absent
                        ELSE CASE dtype = "int64" ->
                                      Value(ToString(int(column[k])))
                               [] dtype = "float64" ->
                                      Value(ToString(int(column[k])) \o ".0")
                               [] OTHER -> Value(column[k])]]

\* convert_to_parquet, df.to_parquet(engine="pyarrow", index=False): the
\* column is stored under the physical type of its dtype, row for row.
to_parquet(df) ==
    [type   |-> CASE df.dtype = "int64"   -> "INT64"
                  [] df.dtype = "float64" -> "DOUBLE"
                  [] OTHER                -> "BYTE_ARRAY",
     values |-> df.values]

\* ------------------------------------------------------------ ingest.py

\* process_table, what it derives from the table name: the raw file, the
\* columnar file, the object path and the warehouse table.
derive(table) ==
    [raw_path     |-> <<"data/raw/">> \o get_table_filename(table),
     parquet_path |-> <<"data/parquet/">> \o get_table_id(table) \o <<".parquet">>,
     gcs_path     |-> get_gcs_path(table),
     table_id     |-> get_table_id(table)]

\* A slip in step 1: the cache is never consulted.
need_download_always(force_download, file) == TRUE

\* A slip in step 1: force_download is not looked at.
need_download_ignores_force(force_download, file) == file = "absent"

\* process_table, step 1: "if force_download or not raw_path.exists()".
need_download(force_download, file) == force_download \/ file = "absent"

\* A slip in step 2: the conversion runs whether or not its output exists.
need_convert_always(force_download, file) == TRUE

\* A slip in step 2: the conversion is skipped only when the columnar file
\* is absent.
need_convert_inverted(force_download, file) == force_download \/ file # "absent"

\* process_table, step 2: "if force_download or not parquet_path.exists()".
need_convert(force_download, file) == force_download \/ file = "absent"

\* A slip in step 4: the load is run whatever skip_bigquery says.
need_load_always(skip_bigquery) == TRUE

\* process_table, step 4: "if not skip_bigquery".
need_load(skip_bigquery) == ~skip_bigquery

\* A slip in process_table: each stage has a try of its own and the next
\* stage is called whatever happened.
goes_on_always(raised_before) == TRUE

\* process_table, one try block around the four steps: a step is reached
\* only when no step before it raised.
goes_on(raised_before) == ~raised_before

\* A slip in process_table: the load is called after the try block, so its
\* errors are not caught.
caught_before_load(stage) ==
    stage \in {"download_file", "convert_to_parquet", "upload_to_gcs"}

\* process_table, "try: ... except Exception": the stages whose errors the
\* handler catches, which is every stage.
caught(stage) ==
    stage \in {"download_file", "convert_to_parquet", "upload_to_gcs",
               "load_to_bigquery"}

\* process_table(table, force_download, skip_bigquery) on the file system,
\* bucket and warehouse fs, the services answering env. The result holds the
\* state afterwards, the stage primitives called in order, the stage that
\* raised ("none" when none did), whether its error left process_table
\* uncaught, and the value returned.
process_table(table, force_download, skip_bigquery, fs, env) ==
    LET do_download == need_download(force_download, fs.raw[table])
        dl == IF do_download THEN download_file(fs.raw[table], env.download)
              ELSE [file |-> fs.raw[table], raised |-> FALSE]
        do_convert == goes_on(dl.raised)
                      /\ need_convert(force_download, fs.parquet[table])
        cv == IF do_convert THEN convert_to_parquet(dl.file, fs.parquet[table], env.convert)
              ELSE [file |-> fs.parquet[table], raised |-> FALSE]
        do_upload == goes_on(dl.raised \/ cv.raised)
        up == IF do_upload THEN upload_to_gcs(cv.file, fs.gcs[table], env.upload)
              ELSE [blob |-> fs.gcs[table], raised |-> FALSE]
        do_load == goes_on(dl.raised \/ cv.raised \/ up.raised)
                   /\ need_load(skip_bigquery)
        ld == IF do_load
              THEN load_to_bigquery(fs.dataset, fs.bq[table], up.blob,
                                    "WRITE_TRUNCATE", env.load)
              ELSE [dataset |-> fs.dataset, rows |-> fs.bq[table], raised |-> FALSE]
        failed == CASE dl.raised -> "download_file"
                    [] cv.raised -> "convert_to_parquet"
                    [] up.raised -> "upload_to_gcs"
                    [] ld.raised -> "load_to_bigquery"
                    [] OTHER     -> "none"
    IN  [raw     |-> [fs.raw EXCEPT ![table] = dl.file],
         parquet |-> [fs.parquet EXCEPT ![table] = cv.file],
         dataset |-> ld.dataset,
         gcs     |-> [fs.gcs EXCEPT ![table] = up.blob],
         bq      |-> [fs.bq EXCEPT ![table] = ld.rows],
         stages  |-> (IF do_download THEN <<"download_file">> ELSE <<>>)
                     \o (IF do_convert THEN <<"convert_to_parquet">> ELSE <<>>)
                     \o (IF do_upload THEN <<"upload_to_gcs">> ELSE <<>>)
                     \o (IF do_load THEN <<"load_to_bigquery">> ELSE <<>>),
         failed  |-> failed,
         escaped |-> failed # "none" /\ ~caught(failed),
         ok      |-> failed = "none"]

\* run_pipeline, the summary: the tables of results by outcome.
successful(res) == {t \in DOMAIN res : res[t]}
failed_tables(res) == {t \in DOMAIN res : ~res[t]}

\* A slip in the exit code: the partial and the total failure swapped.
exit_status_swapped(res) ==
    IF {t \in DOMAIN res : ~res[t]} = {} THEN 0
    ELSE IF {t \in DOMAIN res : res[t]} # {} THEN 2
    ELSE 1

\* run_pipeline, "Determine exit code".
exit_status(res) ==
    IF failed_tables(res) = {} THEN 0
    ELSE IF successful(res) # {} THEN 1
    ELSE 2

\* run_pipeline, "Cleanup if requested and all succeeded".
should_cleanup(cleanup, res) == cleanup /\ failed_tables(res) = {}

\* A slip in the loop: a table that failed is tried again.
next_index_retries(pos, success) == IF success THEN pos + 1 ELSE pos

\* run_pipeline, "for table in tables": the position after the one just
\* processed, whatever its outcome.
next_index(pos, success) == pos + 1

\* A slip in the loop: fail_fast is ignored.
stop_loop_never_breaks(success, fail_fast, pos, n) == pos = n

\* A slip in the loop: any failure ends it, fail_fast or not.
stop_loop_on_any_failure(success, fail_fast, pos, n) == ~success \/ pos = n

\* run_pipeline, "if not success and fail_fast: break", and the end of the
\* list: whether the loop ends after the table at position pos of n.
stop_loop(success, fail_fast, pos, n) == (~success /\ fail_fast) \/ pos = n

\* A slip in the bookkeeping: the first outcome of a name is kept.
put_keeps_first(res, table, success) ==
    IF table \in DOMAIN res THEN res
    ELSE [t \in DOMAIN res \cup {table} |-> IF t = table THEN success ELSE res[t]]

\* A slip in the bookkeeping: only a success is stored.
put_success_only(res, table, success) ==
    IF success
    THEN [t \in DOMAIN res \cup {table} |-> IF t = table THEN TRUE ELSE res[t]]
    ELSE res

\* run_pipeline, "results[table] = success".
put(res, table, success) ==
    [t \in DOMAIN res \cup {table} |-> IF t = table THEN success ELSE res[t]]

\* A slip in run_pipeline: the catalogue is taken whatever list is given.
resolve_tables_always_catalogue(given) == Config_tables

\* run_pipeline, "tables = tables or Config.tables": main passes None for no
\* --tables option, and an empty list is falsy as well.
resolve_tables(given) == IF given = <<>> THEN Config_tables ELSE given

\* A slip in main: the dry-run flag is not looked at.
main_branch_ignores_dry_run(cfg, dry_run) ==
    IF validate(cfg) # "ok" THEN "config_error" ELSE "run_pipeline"

\* main, after the options are parsed: validate first, then the dry run,
\* then the pipeline.
main_branch(cfg, dry_run) ==
    IF validate(cfg) # "ok" THEN "config_error"
    ELSE IF dry_run THEN "dry_run"
    ELSE "run_pipeline"

\* -------------------------------------------------------------- actions

\* Importing ingest.py: config.py validates at import and creates the
\* folders only when the configuration is valid; utils.py then opens
\* Config.log_file for logging, which raises when its folder is missing, and
\* the interpreter ends with status 1 before main is entered.
ImportModules ==
    /\ pc = "import"
    /\ log_dir' = (log_dir \/ validate(config) = "ok")
    /\ IF log_dir'
       THEN pc' = "main" /\ exit_code' = exit_code
       ELSE pc' = "exit" /\ exit_code' = 1
    /\ UNCHANGED <<config, args, tables, i, results, raw, parquet, dataset,
                   gcs, bq, cloud0, returned, cleanup_called, trace, raw0,
                   parquet0, reinvoked, prev>>
    /\ UNCHANGED <<loadVars, pureVars>>

\* main(...) up to the call of run_pipeline, and run_pipeline up to its loop.
Main(a) ==
    /\ pc = "main"
    /\ args' = a
    /\ IF main_branch(config, a.dry_run) = "config_error"
       THEN pc' = "exit" /\ exit_code' = 2 /\ UNCHANGED <<tables, i, results>>
       ELSE IF main_branch(config, a.dry_run) = "dry_run"
       THEN pc' = "exit" /\ exit_code' = 0 /\ UNCHANGED <<tables, i, results>>
       ELSE /\ pc' = "loop"
            /\ tables' = resolve_tables(a.tables)
            /\ i' = 1
            /\ results' = NoResults
            /\ exit_code' = exit_code
    /\ UNCHANGED <<config, log_dir, raw, parquet, dataset, gcs, bq, cloud0,
                   returned, cleanup_called, trace, raw0, parquet0, reinvoked,
                   prev>>
    /\ UNCHANGED <<loadVars, pureVars>>

\* One iteration of run_pipeline's loop: process_table on tables[i], its
\* outcome stored in results, and the fail-fast break.
ProcessTable(env) ==
    /\ pc = "loop"
    /\ LET table == tables[i]
           out == process_table(table, args.force_download, args.skip_bigquery,
                                [raw |-> raw, parquet |-> parquet, dataset |-> dataset,
                                 gcs |-> gcs, bq |-> bq],
                                env)
       IN  /\ raw' = out.raw
           /\ parquet' = out.parquet
           /\ dataset' = out.dataset
           /\ gcs' = out.gcs
           /\ bq' = out.bq
           /\ IF out.escaped
              THEN \* an uncaught error ends the interpreter with status 1
                   /\ pc' = "exit" /\ exit_code' = 1 /\ results' = results
              ELSE /\ results' = put(results, table, out.ok)
                   /\ exit_code' = exit_code
                   /\ pc' = IF stop_loop(out.ok, args.fail_fast, i, Len(tables))
                            THEN "summary" ELSE "loop"
           /\ trace' = Append(trace, [pos |-> i, table |-> table,
                                      pre_raw |-> raw[table],
                                      pre_parquet |-> parquet[table],
                                      post_raw |-> out.raw[table],
                                      post_parquet |-> out.parquet[table],
                                      pre_gcs |-> gcs[table],
                                      post_gcs |-> out.gcs[table],
                                      stages |-> out.stages,
                                      failed |-> out.failed,
                                      ok |-> out.ok])
           /\ i' = next_index(i, out.ok)
    /\ UNCHANGED <<config, log_dir, args, tables, returned, cloud0,
                   cleanup_called, raw0, parquet0, reinvoked, prev>>
    /\ UNCHANGED <<loadVars, pureVars>>

\* run_pipeline after its loop (the summary, the cleanup, the exit code) and
\* main's sys.exit(exit_code).
Summary ==
    /\ pc = "summary"
    /\ cleanup_called' = should_cleanup(args.cleanup, results)
    /\ LET fs == cleanup_local_files(TRUE, [raw |-> raw, parquet |-> parquet])
       IN  IF cleanup_called'
           THEN raw' = fs.raw /\ parquet' = fs.parquet
           ELSE UNCHANGED <<raw, parquet>>
    /\ returned' = exit_status(results)
    /\ exit_code' = returned'
    /\ pc' = "exit"
    /\ UNCHANGED <<config, log_dir, args, tables, i, results, dataset, gcs, bq,
                   cloud0, trace, raw0, parquet0, reinvoked, prev>>
    /\ UNCHANGED <<loadVars, pureVars>>

\* The command is run again after a run of the pipeline has ended: a new
\* process on the files and the dataset the first one left.
Reinvoke ==
    /\ pc = "exit"
    /\ returned # -1
    /\ ~reinvoked
    /\ reinvoked' = TRUE
    /\ prev' = [tables |-> tables, results |-> results]
    /\ pc' = "import"
    /\ args' = NoArgs
    /\ tables' = <<>>
    /\ i' = 0
    /\ results' = NoResults
    /\ returned' = -1
    /\ exit_code' = -1
    /\ cleanup_called' = FALSE
    /\ trace' = <<>>
    /\ raw0' = raw
    /\ parquet0' = parquet
    /\ cloud0' = [gcs |-> gcs, bq |-> bq, dataset |-> dataset]
    /\ UNCHANGED <<config, log_dir, raw, parquet, dataset, gcs, bq>>
    /\ UNCHANGED <<loadVars, pureVars>>

\* ------------------------------------------------------- specifications

\* No single function is being looked at.
NoConv == [tsv |-> <<>>, parquet |-> <<>>]
NoNaming == [names |-> <<>>, derived |-> <<>>]
NoCall == [env |-> <<>>, ret |-> <<>>]
NoSeqRun == [list |-> <<>>, fail_fast |-> FALSE, pos |-> 0, stage |-> 1,
             phase |-> "done", ok |-> TRUE, results |-> NoResults, calls |-> 0]

\* No run_agent call is modelled.
NoAgent == [pc |-> "idle"]

\* No ConversationStats object is modelled.
NoStats == [pc |-> "idle"]

\* The variables of the single-function specifications, unused.
PureIdle ==
    /\ conv = NoConv /\ naming = NoNaming /\ sqlcall = NoCall /\ seqrun = NoSeqRun
    /\ agent = NoAgent /\ stats = NoStats

\* The bucket holds no object of the pipeline.
NoObjects == gcs = [t \in Names |-> 0]

\* What is the same at every start of the process.
Start ==
    /\ pc = "import"
    /\ args = NoArgs
    /\ tables = <<>>
    /\ i = 0
    /\ results = NoResults
    /\ returned = -1
    /\ exit_code = -1
    /\ cleanup_called = FALSE
    /\ trace = <<>>
    /\ raw0 = raw
    /\ parquet0 = parquet
    /\ bq = [t \in Names |-> <<>>]
    /\ cloud0 = [gcs |-> gcs, bq |-> bq, dataset |-> dataset]
    /\ reinvoked = FALSE
    /\ prev = NoRun
    /\ lpc = [c \in Callers |-> "idle"]
    /\ lcalls = [c \in Callers |-> 0]
    /\ lresult = [c \in Callers |-> "none"]
    /\ lseen = [c \in Callers |-> "none"]
    /\ lrequests = [c \in Callers |-> 0]
    /\ created = 0
    /\ ljob = [c \in Callers |-> "none"]

\* One run of the command, on any configuration and any cache content that
\* earlier finished runs (or the user) may have left.
Init ==
    /\ config \in Configs
    /\ log_dir \in BOOLEAN
    /\ raw \in [Names -> RawStates]
    /\ parquet \in [Names -> ParquetStates]
    /\ dataset \in BOOLEAN
    /\ NoObjects
    /\ Start
    /\ PureIdle

Next ==
    \/ ImportModules
    \/ \E a \in ArgSets : Main(a)
    \/ \E env \in Envs : ProcessTable(env)
    \/ Summary

Spec == Init /\ [][Next]_vars

\* A first run on a fresh checkout with a valid configuration, and the
\* command run once more after it.
InitRetry ==
    /\ config = ValidConfig
    /\ log_dir = FALSE
    /\ raw = [t \in Names |-> "absent"]
    /\ parquet = [t \in Names |-> "absent"]
    /\ dataset = FALSE
    /\ NoObjects
    /\ Start
    /\ PureIdle

\* The first command line is any; the second names the tables of the first,
\* with any flags.
RetryArgs == IF reinvoked THEN {a \in ArgSets : a.tables = prev.tables} ELSE ArgSets

NextRetry ==
    \/ ImportModules
    \/ \E a \in RetryArgs : Main(a)
    \/ \E env \in Envs : ProcessTable(env)
    \/ Summary
    \/ Reinvoke

SpecRetry == InitRetry /\ [][NextRetry]_vars

\* ------------------------------------- load_to_bigquery, step by step

\* A caller enters load_to_bigquery: get_bigquery_client, then
\* ensure_dataset_exists.
LoadBegin(c) ==
    /\ lpc[c] = "idle"
    /\ lcalls[c] < MaxLoads
    /\ lcalls' = [lcalls EXCEPT ![c] = @ + 1]
    /\ lpc' = [lpc EXCEPT ![c] = "get_dataset"]
    /\ lresult' = [lresult EXCEPT ![c] = "running"]
    /\ lseen' = [lseen EXCEPT ![c] = "none"]
    /\ lrequests' = [lrequests EXCEPT ![c] = 0]
    /\ ljob' = [ljob EXCEPT ![c] = "none"]
    /\ UNCHANGED <<dataset, created, pipeVars, pureVars>>

\* A slip in ensure_dataset_exists: the create request is sent whatever
\* get_dataset answered.
after_get_dataset_always_creates(found) == "create_dataset"

\* ensure_dataset_exists, after client.get_dataset answered: the try block
\* ends when the dataset was found, the NotFound handler creates it when not.
after_get_dataset(found) == IF found THEN "load_job" ELSE "create_dataset"

\* ensure_dataset_exists, client.get_dataset: the dataset is there, or
\* NotFound is raised and caught, or another error is logged and raised on.
GetDataset(c, answer) ==
    /\ lpc[c] = "get_dataset"
    /\ IF answer = "error"
       THEN /\ lpc' = [lpc EXCEPT ![c] = "idle"]
            /\ lresult' = [lresult EXCEPT ![c] = "EnsureError"]
            /\ lseen' = [lseen EXCEPT ![c] = "error"]
       ELSE /\ lpc' = [lpc EXCEPT ![c] = after_get_dataset(dataset)]
            /\ lresult' = lresult
            /\ lseen' = [lseen EXCEPT ![c] = IF dataset THEN "found" ELSE "missing"]
    /\ UNCHANGED <<dataset, lcalls, lrequests, created, ljob, pipeVars, pureVars>>

\* ensure_dataset_exists, client.create_dataset(dataset) in the NotFound
\* handler: BigQuery answers Conflict when the dataset exists by now, and no
\* handler of ensure_dataset_exists catches what this handler raises.
CreateDataset(c, answer) ==
    /\ lpc[c] = "create_dataset"
    /\ lrequests' = [lrequests EXCEPT ![c] = @ + 1]
    /\ IF dataset
       THEN /\ lpc' = [lpc EXCEPT ![c] = "idle"]
            /\ lresult' = [lresult EXCEPT ![c] = "Conflict"]
            /\ dataset' = dataset
            /\ created' = created
       ELSE IF answer = "error"
       THEN /\ lpc' = [lpc EXCEPT ![c] = "idle"]
            /\ lresult' = [lresult EXCEPT ![c] = "EnsureError"]
            /\ dataset' = dataset
            /\ created' = created
       ELSE /\ lpc' = [lpc EXCEPT ![c] = "load_job"]
            /\ lresult' = lresult
            /\ dataset' = TRUE
            /\ created' = created + 1
    /\ UNCHANGED <<lcalls, lseen, ljob, pipeVars, pureVars>>

\* load_to_bigquery after ensure_dataset_exists: client.load_table_from_uri
\* starts the load job, or raises and the call raises on.
LoadJob(c, answer) ==
    /\ lpc[c] = "load_job"
    /\ IF answer = "error"
       THEN /\ lpc' = [lpc EXCEPT ![c] = "idle"]
            /\ lresult' = [lresult EXCEPT ![c] = "JobError"]
            /\ ljob' = ljob
       ELSE /\ lpc' = [lpc EXCEPT ![c] = "result"]
            /\ lresult' = lresult
            /\ ljob' = [ljob EXCEPT ![c] = "RUNNING"]
    /\ UNCHANGED <<dataset, lcalls, lseen, lrequests, created, pipeVars, pureVars>>

\* A slip in load_to_bigquery: the error of the job is logged and not
\* raised.
wait_result_swallows(answer) ==
    [job |-> IF answer = "ok" THEN "DONE" ELSE "FAILED", raised |-> FALSE]

\* load_job.result(): blocks until the job is done, and raises the error of
\* a job that failed.
wait_result(answer) ==
    [job |-> IF answer = "ok" THEN "DONE" ELSE "FAILED", raised |-> answer # "ok"]

\* The table the concurrent caller c loads: the callers go through the
\* catalogue, one table each.
caller_table(c) == Config_tables[((c - 1) % Len(Config_tables)) + 1]

\* load_to_bigquery, "load_job.result()  # Blocks until complete": a job
\* that is done has written the table from the object of the bucket under
\* write_disposition WRITE_TRUNCATE, a job that failed has left it.
WaitJob(c, answer) ==
    /\ lpc[c] = "result"
    /\ LET w == wait_result(answer)
           table == caller_table(c)
       IN  /\ ljob' = [ljob EXCEPT ![c] = w.job]
           /\ lpc' = [lpc EXCEPT ![c] = IF w.raised THEN "idle" ELSE "get_table"]
           /\ lresult' = [lresult EXCEPT ![c] = IF w.raised THEN "JobError" ELSE @]
           /\ bq' = IF w.job = "DONE"
                    THEN [bq EXCEPT ![table] =
                             write_table(@, gcs[table], "WRITE_TRUNCATE")]
                    ELSE bq
    /\ UNCHANGED <<dataset, lcalls, lseen, lrequests, created, pureVars>>
    /\ UNCHANGED <<pc, config, log_dir, args, tables, i, results, raw, parquet,
                   gcs, cloud0, returned, exit_code, cleanup_called, trace,
                   raw0, parquet0, reinvoked, prev>>

\* load_to_bigquery, client.get_table for the row count of the log line:
\* the call returns, or raises what get_table raised.
GetTable(c, answer) ==
    /\ lpc[c] = "get_table"
    /\ lpc' = [lpc EXCEPT ![c] = "idle"]
    /\ lresult' = [lresult EXCEPT ![c] = IF answer = "error" THEN "StatsError"
                                         ELSE "ok"]
    /\ UNCHANGED <<dataset, lcalls, lseen, lrequests, created, ljob, pipeVars,
                   pureVars>>

\* Concurrent runs at the load stage, on a project with or without the
\* dataset; each has uploaded the object of its table, the tables are empty.
InitLoad ==
    /\ config = ValidConfig
    /\ log_dir = TRUE
    /\ raw = [t \in Names |-> "complete"]
    /\ parquet = [t \in Names |-> "present"]
    /\ dataset \in BOOLEAN
    /\ gcs = [t \in Names |-> 1]
    /\ Start
    /\ PureIdle

NextLoad ==
    \E c \in Callers :
        \/ LoadBegin(c)
        \/ \E answer \in {"ok", "error"} : GetDataset(c, answer)
        \/ \E answer \in {"ok", "error"} : CreateDataset(c, answer)
        \/ \E answer \in {"ok", "error"} : LoadJob(c, answer)
        \/ \E answer \in {"ok", "error"} : WaitJob(c, answer)
        \/ \E answer \in {"ok", "error"} : GetTable(c, answer)

SpecLoad == InitLoad /\ [][NextLoad]_vars

\* --------------------------------------- convert_to_parquet, cell by cell

\* The pipeline at rest, for the specifications of single functions.
AtRest ==
    /\ config = ValidConfig
    /\ log_dir = TRUE
    /\ raw = [t \in Names |-> "complete"]
    /\ parquet = [t \in Names |-> "absent"]
    /\ dataset = TRUE
    /\ NoObjects
    /\ Start

\* convert_to_parquet(tsv_path, parquet_path) on a file of one column:
\* read_csv, then to_parquet.
ConvertToParquet ==
    /\ conv.tsv # <<>>
    /\ conv.parquet = <<>>
    /\ conv' = [conv EXCEPT !.parquet = <<to_parquet(read_csv(conv.tsv))>>]
    /\ UNCHANGED <<pipeVars, dataset, loadVars, naming, sqlcall, seqrun, agent, stats>>

InitConvert ==
    /\ AtRest
    /\ conv \in [tsv : Columns, parquet : {<<>>}]
    /\ naming = NoNaming
    /\ sqlcall = NoCall
    /\ seqrun = NoSeqRun
    /\ agent = NoAgent
    /\ stats = NoStats

NextConvert == ConvertToParquet

SpecConvert == InitConvert /\ [][NextConvert]_vars

\* ------------------------------------------- the names of two tables

\* process_table derives the paths of the two tables of a run.
DeriveNames ==
    /\ naming.names # <<>>
    /\ naming.derived = <<>>
    /\ naming' = [naming EXCEPT !.derived = <<derive(naming.names[1]),
                                              derive(naming.names[2])>>]
    /\ UNCHANGED <<pipeVars, dataset, loadVars, conv, sqlcall, seqrun, agent, stats>>

InitNames ==
    /\ AtRest
    /\ naming \in [names : NameStrings \X NameStrings, derived : {<<>>}]
    /\ conv = NoConv
    /\ sqlcall = NoCall
    /\ seqrun = NoSeqRun
    /\ agent = NoAgent
    /\ stats = NoStats

NextNames == DeriveNames

SpecNames == InitNames /\ [][NextNames]_vars

\* ------------------------------------------------ bigquery_tool.py

\* What the BigQuery client does for one query: whether the client is
\* built, the query accepted, the job finished and the rows converted, the
\* rows of the answer and the bytes the job read.
SqlEnvs ==
    [client : {"ok", "error"}, query : {"ok", "error"},
     result : {"ok", "error"}, to_dataframe : {"ok", "error"},
     rows : 0..MaxSqlRows, bytes : 0..1]

\* execute_sql, the except branch: the record built from the exception.
sql_failure(e) ==
    [raised |-> FALSE, success |-> FALSE, data |-> <<>>, error |-> <<e>>,
     rows_returned |-> 0, bytes_processed |-> 0]

\* A slip in execute_sql: an error of the job's result is not caught.
execute_sql_result_uncaught(env) ==
    IF env.client = "error" THEN sql_failure("client")
    ELSE IF env.query = "error" THEN sql_failure("query")
    ELSE IF env.result = "error"
    THEN [raised |-> TRUE, success |-> FALSE, data |-> <<>>, error |-> <<>>,
          rows_returned |-> 0, bytes_processed |-> 0]
    ELSE IF env.to_dataframe = "error" THEN sql_failure("to_dataframe")
    ELSE LET df == [r \in 1..env.rows |-> r]
         IN  [raised |-> FALSE, success |-> TRUE, data |-> <<df>>,
              error |-> <<>>, rows_returned |-> Len(df),
              bytes_processed |-> env.bytes]

\* execute_sql(sql_query): the four calls of the try block in order, the
\* first that raises ending it in the except branch; data and error are
\* <<>> for None and <<x>> for a value x.
execute_sql(env) ==
    IF env.client = "error" THEN sql_failure("client")
    ELSE IF env.query = "error" THEN sql_failure("query")
    ELSE IF env.result = "error" THEN sql_failure("result")
    ELSE IF env.to_dataframe = "error" THEN sql_failure("to_dataframe")
    ELSE LET df == [r \in 1..env.rows |-> r]
         IN  [raised |-> FALSE, success |-> TRUE, data |-> <<df>>,
              error |-> <<>>, rows_returned |-> Len(df),
              bytes_processed |-> env.bytes]

\* One call of execute_sql.
ExecuteSql ==
    /\ sqlcall.env # <<>>
    /\ sqlcall.ret = <<>>
    /\ sqlcall' = [sqlcall EXCEPT !.ret = <<execute_sql(sqlcall.env[1])>>]
    /\ UNCHANGED <<pipeVars, dataset, loadVars, conv, naming, seqrun, agent, stats>>

InitSql ==
    /\ AtRest
    /\ sqlcall \in [env : {<<e>> : e \in SqlEnvs}, ret : {<<>>}]
    /\ conv = NoConv
    /\ naming = NoNaming
    /\ seqrun = NoSeqRun
    /\ agent = NoAgent
    /\ stats = NoStats

NextSql == ExecuteSql

SpecSql == InitSql /\ [][NextSql]_vars

\* ------------------------------------- run_pipeline, stage call by stage call

\* What a stage of process_table does when its turn comes: it is skipped
\* by its condition, or called, and then returns or raises.
StageAnswers == {"skipped", "ok", "error"}

\* A slip in the loop: the next table is started as soon as process_table
\* has returned, before its outcome is stored.
starts_next_early(phase) == phase \in {"returned", "recorded"}

\* run_pipeline, the loop body: the next iteration starts after
\* "results[table] = success" and the fail-fast test.
starts_next(phase) == phase = "recorded"

\* process_table comes to its next stage, which is skipped, returns, or
\* raises and so ends the call with False.
CallStage(answer) ==
    /\ seqrun.phase = "stages"
    /\ seqrun.stage <= 4
    /\ seqrun' =
         [seqrun EXCEPT
            !.calls = IF answer = "skipped" THEN @ ELSE @ + 1,
            !.stage = IF answer = "error" THEN 5 ELSE @ + 1,
            !.ok = answer # "error"]
    /\ UNCHANGED <<pipeVars, dataset, loadVars, conv, naming, sqlcall, agent, stats>>

\* process_table returns its outcome: True after the last stage, False from
\* the handler.
ReturnOutcome ==
    /\ seqrun.phase = "stages"
    /\ seqrun.stage = 5
    /\ seqrun' = [seqrun EXCEPT !.phase = "returned"]
    /\ UNCHANGED <<pipeVars, dataset, loadVars, conv, naming, sqlcall, agent, stats>>

\* run_pipeline stores the outcome: "results[table] = success".
RecordOutcome ==
    /\ seqrun.phase = "returned"
    /\ seqrun' = [seqrun EXCEPT
                    !.phase = "recorded",
                    !.results = put(@, seqrun.list[seqrun.pos], seqrun.ok)]
    /\ UNCHANGED <<pipeVars, dataset, loadVars, conv, naming, sqlcall, agent, stats>>

\* The loop goes to the next table, or ends at the end of the list or at
\* the fail-fast break.
NextTable ==
    /\ seqrun.pos >= 1
    /\ starts_next(seqrun.phase)
    /\ IF seqrun.phase = "recorded"
          /\ stop_loop(seqrun.ok, seqrun.fail_fast, seqrun.pos, Len(seqrun.list))
       THEN seqrun' = [seqrun EXCEPT !.phase = "done"]
       ELSE seqrun' = [seqrun EXCEPT !.pos = @ + 1, !.stage = 1, !.calls = 0,
                                     !.phase = "stages", !.ok = TRUE]
    /\ UNCHANGED <<pipeVars, dataset, loadVars, conv, naming, sqlcall, agent, stats>>

InitSeq ==
    /\ AtRest
    /\ seqrun \in [list : TableLists \ {<<>>}, fail_fast : BOOLEAN, pos : {1},
                   stage : {1}, phase : {"stages"}, ok : {TRUE},
                   results : {NoResults}, calls : {0}]
    /\ conv = NoConv
    /\ naming = NoNaming
    /\ sqlcall = NoCall
    /\ agent = NoAgent
    /\ stats = NoStats

NextSeq ==
    \/ \E answer \in StageAnswers : CallStage(answer)
    \/ ReturnOutcome
    \/ RecordOutcome
    \/ NextTable

SpecSeq == InitSeq /\ [][NextSeq]_vars

\* ------------------------------------------- the command with --dry-run

\* The command is started with --dry-run, on any configuration, with or
\* without the folder of the log file.
InitDryRun ==
    /\ config \in Configs
    /\ log_dir \in BOOLEAN
    /\ raw = [t \in Names |-> "complete"]
    /\ parquet = [t \in Names |-> "present"]
    /\ dataset \in BOOLEAN
    /\ NoObjects
    /\ Start
    /\ PureIdle

NextDryRun ==
    \/ ImportModules
    \/ \E a \in {b \in ArgSets : b.dry_run} : Main(a)

SpecDryRun == InitDryRun /\ [][NextDryRun]_vars

\* ---------------------------------------------------------------- agent.py

\* run_agent, "max_iterations = 3".
max_iterations == 3

\* The tool of TOOLS, and a name a response may carry that is not in TOOLS.
ToolNames == {"execute_bigquery_sql", "get_schema"}

\* The queries a tool call may ask for.
Queries == {"SELECT 1", "SELECT 2"}

\* The arguments text of a tool call: <<>> for a text json.loads rejects,
\* <<key, value>> for the text of a JSON object with that one member.
Arguments ==
    {<<>>} \cup {<<"sql_query", q>> : q \in Queries} \cup {<<"query", "SELECT 1">>}

\* The tool calls a response may carry, the id aside. The arguments of a
\* call to another tool are never read and are left at one value.
ToolCallKinds ==
    {tc \in [name : ToolNames, arguments : Arguments] :
        tc.name # "execute_bigquery_sql" => tc.arguments = <<"query", "SELECT 1">>}

\* response.usage: <<>> for None, <<u>> for a usage object.
Usages ==
    {<<>>, <<[prompt_tokens |-> 1, completion_tokens |-> 2, total_tokens |-> 3]>>}

\* The content of a response without tool calls.
Contents == {<<"answer 1">>, <<"answer 2">>}

\* The id the API gives to tool call j of the response to model call n.
call_id(n, j) == 10 * n + j

\* The sequences of at most n tool call kinds.
KindLists(n) == UNION {[1..m -> ToolCallKinds] : m \in 0..n}

\* The responses the model may give to model call n when it may still
\* issue budget tool calls.
Responses(n, budget) ==
    {[content |-> IF kinds = <<>> THEN c ELSE <<>>,
      tool_calls |-> [j \in DOMAIN kinds |->
                         [id |-> call_id(n, j), type |-> "function",
                          name |-> kinds[j].name,
                          arguments |-> kinds[j].arguments]],
      usage |-> u] :
        kinds \in KindLists(budget), c \in Contents, u \in Usages}

\* What the warehouse answers to the query of one tool call, a subset of
\* SqlEnvs: the query is rejected, or it returns one or two rows.
AgentSqlEnvs ==
    {e \in SqlEnvs :
        /\ e.client = "ok" /\ e.result = "ok" /\ e.to_dataframe = "ok"
        /\ e.bytes = 0
        /\ e.rows \in 1..2
        /\ e.query = "error" => e.rows = 1}

\* What one tool call meets: the warehouse's answer, and whether the values
\* of the returned rows are of types json.dumps accepts.
ToolEnvs ==
    {t \in [sql : AgentSqlEnvs, serializable : BOOLEAN] :
        ~t.serializable => (t.sql.query = "ok" /\ t.sql.rows = 1)}

\* run_agent, "Track usage".
add_usage(total, usage) ==
    IF usage = <<>> THEN total
    ELSE [prompt_tokens |-> total.prompt_tokens + usage[1].prompt_tokens,
          completion_tokens |->
              total.completion_tokens + usage[1].completion_tokens,
          total_tokens |-> total.total_tokens + usage[1].total_tokens]

\* run_agent, "Add assistant message to history".
assistant_entry(message) ==
    [role |-> "assistant", content |-> message.content,
     tool_calls |-> message.tool_calls]

\* run_agent, "if tool_call.function.name == ...": whether the tool call is
\* executed and answered.
handles(name) == name = "execute_bigquery_sql"

\* json.loads(arguments) raises.
loads_raises(arguments) == arguments = <<>>

\* args["sql_query"] raises.
key_raises(arguments) == arguments[1] # "sql_query"

\* run_agent, "Format result for LLM".
tool_response(result) ==
    IF result.success
    THEN [success |-> TRUE, rows_returned |-> result.rows_returned,
          data |-> result.data[1]]
    ELSE [success |-> FALSE, error |-> result.error[1]]

\* json.dumps(tool_response) raises: the rows of a successful query hold a
\* value json.dumps has no encoding for.
dumps_raises(result, serializable) == result.success /\ ~serializable

\* A slip in the tool message: it carries the id of the call after.
tool_entry_next_id(id, response) ==
    [role |-> "tool", tool_call_id |-> id + 1, content |-> response]

\* run_agent, "Add tool response to messages".
tool_entry(id, response) ==
    [role |-> "tool", tool_call_id |-> id, content |-> response]

\* A slip in the dict returned: the rows are left out.
returned_data_never(query_result) == <<>>

\* run_agent, the "data" of the dict returned with the final answer.
returned_data(query_result) ==
    IF query_result # <<>> /\ query_result[1].success
    THEN query_result[1].data
    ELSE <<>>

\* run_agent, the dict returned when a response carries no tool call.
final_result(content, sql_executed, query_result, total_usage) ==
    [answer |-> content, sql_query |-> sql_executed,
     data |-> returned_data(query_result), error |-> <<>>,
     usage |-> total_usage]

\* run_agent, the dict returned after the loop, "Max iterations reached".
apology_result(sql_executed, total_usage) ==
    [answer |-> <<"I'm sorry, I couldn't complete the query. Please try rephrasing your question.">>,
     sql_query |-> sql_executed, data |-> <<>>,
     error |-> <<"Max iterations reached">>, usage |-> total_usage]

\* Tool calls the responses received so far carry.
Issued == LET RECURSIVE sum(_)
              sum(n) == IF n = 0 THEN 0
                        ELSE Len(agent.responses[n].tool_calls) + sum(n - 1)
          IN  sum(Len(agent.responses))

\* run_agent up to its loop: the message list and the locals.
AgentStart ==
    [pc |-> "call", iteration |-> 0, k |-> 0,
     messages |-> <<[role |-> "system"], [role |-> "user"]>>,
     sql_executed |-> <<>>, query_result |-> <<>>,
     total_usage |-> [prompt_tokens |-> 0, completion_tokens |-> 0,
                      total_tokens |-> 0],
     ret |-> <<>>, responses |-> <<>>]

\* One pass of the loop up to the tool calls: the model call, the usage,
\* and either the assistant message or the return of the final answer.
CallModel(response) ==
    /\ agent.pc = "call"
    /\ LET total == add_usage(agent.total_usage, response.usage)
       IN  agent' =
             IF response.tool_calls # <<>>
             THEN [agent EXCEPT
                     !.responses = Append(@, response),
                     !.total_usage = total,
                     !.messages = Append(@, assistant_entry(response)),
                     !.pc = "tools", !.k = 1]
             ELSE [agent EXCEPT
                     !.responses = Append(@, response),
                     !.total_usage = total,
                     !.ret = <<final_result(response.content,
                                            agent.sql_executed,
                                            agent.query_result, total)>>,
                     !.pc = "done"]
    /\ UNCHANGED <<pipeVars, dataset, loadVars, conv, naming, sqlcall, seqrun, stats>>

\* client.chat.completions.create raises: run_agent ends with the error.
CallModelRaises ==
    /\ agent.pc = "call"
    /\ agent' = [agent EXCEPT !.pc = "raised"]
    /\ UNCHANGED <<pipeVars, dataset, loadVars, conv, naming, sqlcall, seqrun, stats>>

\* One pass of "for tool_call in assistant_message.tool_calls".
ExecuteTool(env) ==
    /\ agent.pc = "tools"
    /\ agent.k <= Len(agent.responses[Len(agent.responses)].tool_calls)
    /\ LET tool_call == agent.responses[Len(agent.responses)].tool_calls[agent.k]
           result == execute_sql(env.sql)
       IN  agent' =
             IF ~handles(tool_call.name)
             THEN [agent EXCEPT !.k = @ + 1]
             ELSE IF loads_raises(tool_call.arguments)
                     \/ key_raises(tool_call.arguments)
             THEN [agent EXCEPT !.pc = "raised"]
             ELSE IF dumps_raises(result, env.serializable)
             THEN [agent EXCEPT !.sql_executed = <<tool_call.arguments[2]>>,
                                !.query_result = <<result>>,
                                !.pc = "raised"]
             ELSE [agent EXCEPT
                     !.sql_executed = <<tool_call.arguments[2]>>,
                     !.query_result = <<result>>,
                     !.messages =
                         Append(@, tool_entry(tool_call.id,
                                              tool_response(result))),
                     !.k = @ + 1]
    /\ UNCHANGED <<pipeVars, dataset, loadVars, conv, naming, sqlcall, seqrun, stats>>

\* The end of a pass of the loop whose response carried tool calls: the
\* next pass, or after the last pass the return of the apology.
NextIteration ==
    /\ agent.pc = "tools"
    /\ agent.k > Len(agent.responses[Len(agent.responses)].tool_calls)
    /\ agent' =
         IF agent.iteration + 1 < max_iterations
         THEN [agent EXCEPT !.iteration = @ + 1, !.pc = "call", !.k = 0]
         ELSE [agent EXCEPT
                 !.ret = <<apology_result(agent.sql_executed,
                                          agent.total_usage)>>,
                 !.pc = "done"]
    /\ UNCHANGED <<pipeVars, dataset, loadVars, conv, naming, sqlcall, seqrun, stats>>

InitAgent ==
    /\ AtRest
    /\ conv = NoConv
    /\ naming = NoNaming
    /\ sqlcall = NoCall
    /\ seqrun = NoSeqRun
    /\ stats = NoStats
    /\ agent = AgentStart

NextAgent ==
    \/ \E response \in Responses(Len(agent.responses) + 1, MaxToolCalls - Issued) :
           CallModel(response)
    \/ CallModelRaises
    \/ \E env \in ToolEnvs : ExecuteTool(env)
    \/ NextIteration

SpecAgent == InitAgent /\ [][NextAgent]_vars

\* ---------------------------------------------------------------- stats.py

\* The add_query calls of the module's own test block: model, input
\* tokens, output tokens, question, sql_executed.
AddQueryArgs ==
    {[model |-> "gpt-4o", input_tokens |-> 100, output_tokens |-> 200,
      question |-> "What are the top movies?", sql_executed |-> TRUE],
     [model |-> "gpt-4o", input_tokens |-> 150, output_tokens |-> 250,
      question |-> "Show me Nolan's films", sql_executed |-> TRUE],
     [model |-> "gpt-4o-mini", input_tokens |-> 80, output_tokens |-> 120,
      question |-> "Who is Tom Hanks?", sql_executed |-> FALSE]}

\* Seconds of wall-clock time between two readings of datetime.now() that
\* differ.
TickSeconds == 4

\* ConversationStats(): the defaults of the dataclass, made at second 0 of
\* the clock. now is the clock, in seconds; summary is the dict the caller
\* keeps from the latest get_summary, op the latest call made.
NewStats ==
    [pc |-> "live", total_questions |-> 0, total_input_tokens |-> 0,
     total_output_tokens |-> 0, model_usage |-> <<>>, query_history |-> <<>>,
     session_start |-> 0, now |-> 0, summary |-> <<>>, op |-> "new"]

\* dict.get(key, default).
get(dict, key, default) == IF key \in DOMAIN dict THEN dict[key] ELSE default

\* A slip in add_query: the count of a model is set to 1, not raised by 1.
add_query_resets_count(self, a) ==
    [self EXCEPT
       !.total_questions = @ + 1,
       !.total_input_tokens = @ + a.input_tokens,
       !.total_output_tokens = @ + a.output_tokens,
       !.model_usage =
           [m \in DOMAIN self.model_usage \cup {a.model} |->
               IF m = a.model THEN 1 ELSE self.model_usage[m]],
       !.query_history =
           Append(@, [timestamp |-> self.now, question |-> a.question,
                      model |-> a.model, input_tokens |-> a.input_tokens,
                      output_tokens |-> a.output_tokens,
                      sql_executed |-> a.sql_executed])]

\* ConversationStats.add_query; the timestamp is the clock's reading.
add_query(self, a) ==
    [self EXCEPT
       !.total_questions = @ + 1,
       !.total_input_tokens = @ + a.input_tokens,
       !.total_output_tokens = @ + a.output_tokens,
       !.model_usage =
           [m \in DOMAIN self.model_usage \cup {a.model} |->
               IF m = a.model THEN get(self.model_usage, a.model, 0) + 1
               ELSE self.model_usage[m]],
       !.query_history =
           Append(@, [timestamp |-> self.now, question |-> a.question,
                      model |-> a.model, input_tokens |-> a.input_tokens,
                      output_tokens |-> a.output_tokens,
                      sql_executed |-> a.sql_executed])]

\* round(seconds / 60, 1) as Python prints it: the minutes to one decimal.
\* Exact for the clock's readings, which are multiples of TickSeconds and so
\* never halfway between two tenths of a minute.
round_minutes(seconds) ==
    LET tenths == (seconds + 3) \div 6
    IN  ToString(tenths \div 10) \o "." \o ToString(tenths % 10)

\* ConversationStats.get_summary: the dict it returns. Its model_usage is
\* the object's own dict, not a copy.
get_summary(self) ==
    [total_questions |-> self.total_questions,
     total_tokens |-> self.total_input_tokens + self.total_output_tokens,
     input_tokens |-> self.total_input_tokens,
     output_tokens |-> self.total_output_tokens,
     session_duration_minutes |-> round_minutes(self.now - self.session_start),
     model_usage |-> self.model_usage]

\* What a dict kept from get_summary reads once the object's model_usage
\* dict, which it holds, is model_usage.
aliased(summary, model_usage) ==
    IF summary = <<>> THEN summary
    ELSE <<[summary[1] EXCEPT !.model_usage = model_usage]>>

\* One add_query call. It updates model_usage in place, so a summary kept
\* from before shows the new counts.
AddQuery(a) ==
    /\ stats.pc = "live"
    /\ Len(stats.query_history) < MaxQueries
    /\ LET self == add_query(stats, a)
       IN  stats' = [self EXCEPT !.summary = aliased(@, self.model_usage),
                                 !.op = "add_query"]
    /\ UNCHANGED <<pipeVars, dataset, loadVars, conv, naming, sqlcall, seqrun, agent>>

\* One get_summary call; summary keeps the dict returned.
GetSummary ==
    /\ stats.pc = "live"
    /\ stats' = [stats EXCEPT !.summary = <<get_summary(stats)>>,
                              !.op = "get_summary"]
    /\ UNCHANGED <<pipeVars, dataset, loadVars, conv, naming, sqlcall, seqrun, agent>>

\* Time passes between two calls.
Tick ==
    /\ stats.pc = "live"
    /\ stats.now < MaxTicks * TickSeconds
    /\ stats' = [stats EXCEPT !.now = @ + TickSeconds, !.op = "tick"]
    /\ UNCHANGED <<pipeVars, dataset, loadVars, conv, naming, sqlcall, seqrun, agent>>

InitStats ==
    /\ AtRest
    /\ conv = NoConv
    /\ naming = NoNaming
    /\ sqlcall = NoCall
    /\ seqrun = NoSeqRun
    /\ agent = NoAgent
    /\ stats = NewStats

NextStats ==
    \/ \E a \in AddQueryArgs : AddQuery(a)
    \/ GetSummary
    \/ Tick

SpecStats == InitStats /\ [][NextStats]_vars

\* ------------------------------------------------- helpers of the claims


\* How often stage occurs among the stage calls of one process_table call.
Count(stages, stage) == Cardinality({j \in DOMAIN stages : stages[j] = stage})

\* run_pipeline has returned.
RunEnded == pc = "exit" /\ returned # -1

\* Some process_table call of this run returned False.
SomeCallFailed == \E k \in DOMAIN trace : ~trace[k].ok

\* The table names at the positions 1..n of the table list.
Upto(n) == {tables[j] : j \in 1..n}

\* Call k of the trace is the latest call before call m on m's table.
LatestBefore(k, m) ==
    /\ k < m
    /\ trace[k].table = trace[m].table
    /\ \A j \in (k + 1)..(m - 1) : trace[j].table # trace[m].table

\* --------------------------------------------------------------- claims

\* C1: when run_pipeline has returned, its value is 0, 1 or 2: 0 exactly
\* when every table of the Run Result succeeded, 1 exactly when one succeeded
\* and one failed, 2 exactly when one was attempted and none succeeded.
C1_ExitStatus ==
    RunEnded =>
        /\ returned \in {0, 1, 2}
        /\ returned = 0 <=> \A t \in DOMAIN results : results[t]
        /\ returned = 1 <=> /\ \E t \in DOMAIN results : results[t]
                            /\ \E t \in DOMAIN results : ~results[t]
        /\ returned = 2 <=> /\ DOMAIN results # {}
                            /\ \A t \in DOMAIN results : ~results[t]
        /\ exit_code = returned

\* C1, its case: a run of two tables ends with one succeeded and one failed.
C1_Witness ==
    RunEnded /\ returned = 1 /\ Cardinality(DOMAIN results) = 2

\* C2, as claimed: in a run in which a process_table call failed,
\* cleanup_local_files is not invoked and no local artifact that was there
\* is gone.
C2_CleanupGuard ==
    SomeCallFailed =>
        /\ ~cleanup_called
        /\ \A t \in Names : raw[t] = "absent" => raw0[t] = "absent"
        /\ \A t \in Names : parquet[t] = "absent" => parquet0[t] = "absent"

\* C3: with fail_fast, a failed process_table call is the last call of the
\* run, no stage call is issued for a later position, and when the run ends
\* the Run Result holds exactly the tables up to the failing position.
C3_FailFast ==
    args.fail_fast =>
        /\ \A k \in DOMAIN trace : trace[k].pos = k /\ trace[k].table = tables[k]
        /\ \A k \in DOMAIN trace : ~trace[k].ok => k = Len(trace)
        /\ \A k \in DOMAIN trace :
              ~trace[k].ok => pc \in {"summary", "exit"} /\ DOMAIN results = Upto(k)

\* C3, its case: the first of two different tables fails under fail_fast,
\* the run has ended and the Run Result holds the first table alone.
C3_Witness ==
    /\ RunEnded /\ args.fail_fast
    /\ Len(tables) = 2 /\ tables[1] # tables[2]
    /\ Len(trace) = 1 /\ ~trace[1].ok
    /\ DOMAIN results = {tables[1]}

\* C4, as claimed: a non-forced process_table call that finds the raw and
\* the columnar artifact issues no download and no conversion, exactly one
\* upload and, unless skip_bigquery, exactly one load.
C4_Original ==
    \A k \in DOMAIN trace :
        (~args.force_download /\ trace[k].pre_raw # "absent"
                              /\ trace[k].pre_parquet = "present") =>
            /\ Count(trace[k].stages, "download_file") = 0
            /\ Count(trace[k].stages, "convert_to_parquet") = 0
            /\ Count(trace[k].stages, "upload_to_gcs") = 1
            /\ Count(trace[k].stages, "load_to_bigquery")
                   = (IF args.skip_bigquery THEN 0 ELSE 1)

\* C4, amended: such a call issues no download and no conversion, exactly
\* one upload, and exactly one load unless skip_bigquery is set or the
\* upload failed, in which case it issues none.
C4_Idempotent ==
    \A k \in DOMAIN trace :
        (~args.force_download /\ trace[k].pre_raw # "absent"
                              /\ trace[k].pre_parquet = "present") =>
            /\ trace[k].stages \in {<<"upload_to_gcs">>,
                                    <<"upload_to_gcs", "load_to_bigquery">>}
            /\ Count(trace[k].stages, "load_to_bigquery")
                   = (IF args.skip_bigquery \/ trace[k].failed = "upload_to_gcs"
                      THEN 0 ELSE 1)

\* C4, its case: the second of two consecutive non-forced calls on one
\* table, the first of which downloaded and converted, uploads and loads.
C4_Witness ==
    /\ Len(trace) = 2 /\ trace[1].table = trace[2].table
    /\ ~args.force_download /\ ~args.skip_bigquery
    /\ trace[1].ok /\ "download_file" = trace[1].stages[1]
    /\ trace[2].stages = <<"upload_to_gcs", "load_to_bigquery">>

\* C5, as claimed: after a process_table call whose download failed, the
\* next non-forced call on the same table issues the download again.
C5_FailedFetchRetried ==
    \A k, m \in DOMAIN trace :
        (LatestBefore(k, m) /\ trace[k].failed = "download_file"
                            /\ ~args.force_download) =>
            Count(trace[m].stages, "download_file") = 1

\* C6, as claimed: when callers race to create the dataset, none of their
\* load_to_bigquery calls ends with the error of the lost race.
C6_RaceTolerated ==
    \A c \in Callers : lresult[c] # "Conflict"

\* C7: when run_pipeline has returned, the Run Result holds exactly the
\* tables of the positions that were processed, and a position of the list
\* was left out only after a failure under fail_fast; without fail_fast
\* every table of the list has its entry.
C7_RunResult ==
    RunEnded =>
        /\ DOMAIN results = Upto(Len(trace))
        /\ Len(trace) < Len(tables) => args.fail_fast /\ ~trace[Len(trace)].ok
        /\ ~args.fail_fast => DOMAIN results = Upto(Len(tables))

\* C7, its case: a run without fail_fast has ended, its first table failed,
\* and both of its two tables have their entry.
C7_Witness ==
    /\ RunEnded /\ ~args.fail_fast
    /\ Len(tables) = 2 /\ tables[1] # tables[2]
    /\ ~trace[1].ok
    /\ DOMAIN results = {tables[1], tables[2]}

\* C8: without fail_fast, every position of the list is attempted exactly
\* once and in order whatever failed before it; a call finds the artifacts
\* of its table as the latest call on that table left them (as the run found
\* them when there was none), so no other table's outcome reaches it; and a
\* failure marks only its own table in the Run Result.
C8_ContinueAfterFailure ==
    ~args.fail_fast =>
        /\ \A k \in DOMAIN trace : trace[k].pos = k /\ trace[k].table = tables[k]
        /\ pc = "loop" => Len(trace) = i - 1 /\ i <= Len(tables)
        /\ pc \in {"summary", "exit"} => Len(trace) = Len(tables)
        /\ \A m \in DOMAIN trace :
              IF \E k \in DOMAIN trace : LatestBefore(k, m)
              THEN \A k \in DOMAIN trace : LatestBefore(k, m) =>
                       /\ trace[m].pre_raw = trace[k].post_raw
                       /\ trace[m].pre_parquet = trace[k].post_parquet
              ELSE /\ trace[m].pre_raw = raw0[trace[m].table]
                   /\ trace[m].pre_parquet = parquet0[trace[m].table]
        /\ \A m \in DOMAIN trace :
              (\A j \in DOMAIN trace : j > m => trace[j].table # trace[m].table)
                  => results[trace[m].table] = trace[m].ok

\* C8, its case: without fail_fast the first of two different tables failed
\* and the second was attempted and succeeded.
C8_Witness ==
    /\ ~args.fail_fast
    /\ Len(trace) = 2 /\ tables[1] # tables[2]
    /\ ~trace[1].ok /\ trace[2].ok
    /\ trace[2].stages # <<>>

\* The first run ended with a table succeeded and a table failed.
PrevMixed ==
    /\ \E t \in DOMAIN prev.results : prev.results[t]
    /\ \E t \in DOMAIN prev.results : ~prev.results[t]

\* C9, as claimed: in a non-forced run after a run with successes and
\* failures, no stage is issued for a table that succeeded, and every call
\* on a table that failed starts with the download.
C9_Original ==
    (reinvoked /\ ~args.force_download /\ PrevMixed) =>
        \A k \in DOMAIN trace :
            trace[k].table \in DOMAIN prev.results =>
                IF prev.results[trace[k].table]
                THEN trace[k].stages = <<>>
                ELSE trace[k].stages[1] = "download_file"

\* C9, amended: in such a run a table that succeeded skips the download and
\* the conversion only: it is uploaded again, and loaded again exactly when
\* that upload does not fail and skip_bigquery is not set. A table that
\* failed resumes at the first stage whose artifact is missing: at the
\* download only when no raw file was left, at the conversion when the raw
\* file is there and the columnar file is not, at the upload otherwise; it
\* is uploaded exactly when neither the download nor the conversion failed
\* in this call, and loaded exactly when it was uploaded, the upload did not
\* fail and skip_bigquery is not set.
C9_Retry ==
    (reinvoked /\ ~args.force_download /\ PrevMixed) =>
        \A k \in DOMAIN trace :
            trace[k].table \in DOMAIN prev.results =>
                /\ IF prev.results[trace[k].table]
                   THEN trace[k].stages \in
                            {<<"upload_to_gcs">>,
                             <<"upload_to_gcs", "load_to_bigquery">>}
                   ELSE trace[k].stages[1] =
                           (IF trace[k].pre_raw = "absent" THEN "download_file"
                            ELSE IF trace[k].pre_parquet = "absent"
                            THEN "convert_to_parquet"
                            ELSE "upload_to_gcs")
                /\ Count(trace[k].stages, "upload_to_gcs") =
                       (IF trace[k].failed \in {"download_file",
                                                "convert_to_parquet"}
                        THEN 0 ELSE 1)
                /\ Count(trace[k].stages, "load_to_bigquery") =
                       (IF \/ args.skip_bigquery
                           \/ trace[k].failed \in {"download_file",
                                                   "convert_to_parquet",
                                                   "upload_to_gcs"}
                        THEN 0 ELSE 1)

\* C9, its case: in the second run a table that had failed (at the load)
\* resumes at the upload, and a table that had succeeded is uploaded and
\* loaded again.
C9_Witness ==
    /\ reinvoked /\ ~args.force_download /\ PrevMixed
    /\ Len(trace) = 2
    /\ ~prev.results[trace[1].table] /\ trace[1].stages[1] = "upload_to_gcs"
    /\ prev.results[trace[2].table]
    /\ trace[2].stages = <<"upload_to_gcs", "load_to_bigquery">>

\* C10, as claimed: with a configuration that validate() rejects the process
\* ends with status 2, and no stage and no cleanup was called.
C10_ConfigErrorExit2 ==
    (validate(config) # "ok" /\ pc = "exit") =>
        /\ exit_code = 2
        /\ trace = <<>>
        /\ ~cleanup_called
        /\ raw = raw0 /\ parquet = parquet0

\* ------------------------------------------------------------------ C11

\* What the process has changed outside itself since it started.
NothingChanged ==
    /\ raw = raw0
    /\ parquet = parquet0
    /\ [gcs |-> gcs, bq |-> bq, dataset |-> dataset] = cloud0

\* C11: a process started with --dry-run ends without having entered
\* run_pipeline (no table list resolved, no result, no return value), without
\* a process_table or cleanup call, and with every local file, bucket
\* object, warehouse table and the dataset as it found them, whatever the
\* other flags; with a valid configuration its exit status is 0.
C11_DryRunNoEffect ==
    (pc = "exit" /\ args.dry_run) =>
        /\ returned = -1
        /\ tables = <<>>
        /\ results = NoResults
        /\ trace = <<>>
        /\ ~cleanup_called
        /\ NothingChanged
        /\ exit_code = IF validate(config) = "ok" THEN 0 ELSE 2

\* A dry run asked with --force-download and --cleanup over files that
\* exist, which ends with status 0.
C11_Witness ==
    /\ pc = "exit"
    /\ args.dry_run /\ args.force_download /\ args.cleanup
    /\ Len(args.tables) > 0
    /\ \A k \in 1..Len(args.tables) : raw[args.tables[k]] = "complete"
    /\ exit_code = 0

\* ------------------------------------------------------------------ C12

\* C12, as claimed: at the end of a run cleanup_local_files has been invoked
\* exactly when cleanup was asked and no process_table call of the run
\* failed; when invoked it has left no raw file and has kept every columnar
\* file, and when cleanup was not asked no file that was there is gone.
C12_CleanupExactly ==
    RunEnded =>
        /\ cleanup_called <=> (args.cleanup /\ ~SomeCallFailed)
        /\ cleanup_called =>
               /\ \A t \in Names : raw[t] = "absent"
               /\ \A t \in Names : parquet0[t] = "present" => parquet[t] = "present"
        /\ ~args.cleanup =>
               /\ \A t \in Names : raw0[t] # "absent" => raw[t] # "absent"
               /\ \A t \in Names : parquet0[t] = "present" => parquet[t] = "present"

\* ------------------------------------------------------------------ C13

\* The stages before the load.
LocalStages == {"download_file", "convert_to_parquet", "upload_to_gcs"}

\* C13: with skip_bigquery no process_table call invokes load_to_bigquery,
\* the dataset and the bronze tables stay as the process found them, and a
\* call returns True exactly when none of download, conversion and upload
\* raised; without skip_bigquery a call returns True only after one
\* load_to_bigquery call that did not raise.
C13_SkipLoad ==
    /\ args.skip_bigquery =>
           /\ dataset = cloud0.dataset
           /\ bq = cloud0.bq
           /\ \A k \in DOMAIN trace :
                  /\ Count(trace[k].stages, "load_to_bigquery") = 0
                  /\ trace[k].ok <=> trace[k].failed \notin LocalStages
    /\ ~args.skip_bigquery =>
           \A k \in DOMAIN trace :
               trace[k].ok =>
                   /\ Count(trace[k].stages, "load_to_bigquery") = 1
                   /\ trace[k].failed # "load_to_bigquery"
                   /\ dataset
                   /\ bq[trace[k].table] # <<>>

\* A run with skip_bigquery in which a table succeeded while the dataset
\* is missing, next to one whose upload failed.
C13_Witness ==
    /\ RunEnded
    /\ args.skip_bigquery
    /\ ~dataset
    /\ \E k \in DOMAIN trace : trace[k].ok
    /\ \E k \in DOMAIN trace : trace[k].failed = "upload_to_gcs"

\* ------------------------------------------------------------------ C14

\* C14: every process_table call in which neither download_file nor
\* convert_to_parquet raised calls upload_to_gcs exactly once, whatever
\* force_download and skip_bigquery are and whether or not the object
\* exists; an upload that did not raise has written the object anew, one
\* that raised or was not reached has left it as it was.
C14_PublishAlways ==
    \A k \in DOMAIN trace :
        LET c == trace[k]
            reached == c.failed \notin {"download_file", "convert_to_parquet"}
        IN  /\ Count(c.stages, "upload_to_gcs") = IF reached THEN 1 ELSE 0
            /\ c.post_gcs = IF reached /\ c.failed # "upload_to_gcs"
                            THEN c.pre_gcs + 1 ELSE c.pre_gcs

\* A call that found the raw file, the columnar file and the object of an
\* earlier call in place, ran without force_download and with
\* skip_bigquery, and wrote the object again.
C14_Witness ==
    /\ ~args.force_download /\ args.skip_bigquery
    /\ \E k \in DOMAIN trace :
           /\ trace[k].pre_raw = "complete" /\ trace[k].pre_parquet = "present"
           /\ trace[k].pre_gcs = 1 /\ trace[k].post_gcs = 2
           /\ trace[k].stages = <<"upload_to_gcs">>

\* ------------------------------------------------------------------ C15

\* C15: a load_to_bigquery call whose get_dataset found the dataset sends
\* no create request, does not end with an error of ensure_dataset_exists
\* and leaves the dataset in place; a call whose get_dataset found it
\* missing sends exactly one create request; and over all calls the dataset
\* is created at most once, never when it was there from the start.
C15_EnsureIdempotent ==
    /\ \A c \in Callers :
           /\ lseen[c] = "found" =>
                  /\ lrequests[c] = 0
                  /\ lresult[c] \notin {"EnsureError", "Conflict"}
                  /\ dataset
           /\ lseen[c] = "missing" =>
                  lrequests[c] = IF lpc[c] = "create_dataset" THEN 0 ELSE 1
    /\ created <= 1
    /\ created = 1 => dataset /\ ~cloud0.dataset
    /\ cloud0.dataset => dataset

\* A second call right after a first: the first created the missing
\* dataset, the second found it and went through, with no other caller
\* around.
C15_Witness ==
    \E c \in Callers :
        /\ lcalls[c] = 2
        /\ lseen[c] = "found"
        /\ lresult[c] = "ok"
        /\ created = 1
        /\ \A d \in Callers \ {c} : lcalls[d] = 0

\* ------------------------------------------------------------------ C16

\* C16, as claimed: the columnar file written from a column holds one value
\* per cell, a missing value exactly where the cell is the sentinel \N, and
\* everywhere else a value that reads as the cell did.
C16_RoundTrip ==
    conv.parquet # <<>> =>
        LET back == conv.parquet[1].values
        IN  /\ Len(back) = Len(conv.tsv)
            /\ \A k \in DOMAIN conv.tsv :
                   IF conv.tsv[k] = NullSentinel
                   THEN back[k].absent
                   ELSE ~back[k].absent /\ back[k].text = conv.tsv[k]

\* ------------------------------------------------------------------ C17

\* The paths derived for the two names differ, one kind of path at a time.
RawDistinct == naming.derived[1].raw_path # naming.derived[2].raw_path
IdDistinct ==
    /\ naming.derived[1].parquet_path # naming.derived[2].parquet_path
    /\ naming.derived[1].gcs_path # naming.derived[2].gcs_path
    /\ naming.derived[1].table_id # naming.derived[2].table_id

\* The name holds no underscore, as every name of the catalogue.
NoUnderscore(table) == \A k \in DOMAIN table : table[k] # "_"

\* C17, as claimed: for any two distinct table names the raw path, the
\* columnar path, the object path and the warehouse table differ.
C17_Original ==
    (naming.derived # <<>> /\ naming.names[1] # naming.names[2]) =>
        RawDistinct /\ IdDistinct

\* C17, amended: two distinct table names always have distinct raw paths,
\* and when neither holds an underscore their columnar paths, object paths
\* and warehouse tables differ too.
C17_NoCollision ==
    (naming.derived # <<>> /\ naming.names[1] # naming.names[2]) =>
        /\ RawDistinct
        /\ (NoUnderscore(naming.names[1]) /\ NoUnderscore(naming.names[2])) =>
               IdDistinct

\* Two dotted names without underscore that differ in their last letter.
C17_Witness ==
    /\ naming.derived # <<>>
    /\ naming.names = << <<"t", ".", "b">>, <<"t", ".", "t">> >>
    /\ naming.derived[1].table_id = <<"t", "_", "b">>
    /\ naming.derived[2].gcs_path =
           <<"imdb/", "t", "_", "t", "/", "t", "_", "t", ".parquet">>

\* ------------------------------------------------------------------ C18

\* run_pipeline has been entered by this process.
InPipeline == pc \in {"loop", "summary"} \/ RunEnded

\* The list the options select, and the tables outside it.
Selected == IF args.tables = <<>> THEN Config_tables ELSE args.tables
NotSelected == Names \ {Selected[j] : j \in DOMAIN Selected}

\* The tables of the process_table calls so far, in call order.
Attempted == [k \in DOMAIN trace |-> trace[k].table]

\* C18, as claimed: when the run has ended, the tables attempted are those
\* of the list given (the catalogue for no or an empty list), in its order,
\* and nothing of a table outside the list has changed.
C18_Original ==
    RunEnded =>
        /\ Attempted = Selected
        /\ \A t \in NotSelected :
               /\ raw[t] = raw0[t]
               /\ parquet[t] = parquet0[t]
               /\ gcs[t] = cloud0.gcs[t]
               /\ bq[t] = cloud0.bq[t]

\* C18, amended: the list run_pipeline iterates is the list given, or the
\* catalogue for no or an empty list; the calls follow it position by
\* position, and stop short of its end only after a failure under
\* fail_fast; no call is made for a table outside the list, whose columnar
\* file, object and warehouse table stay as they were and whose raw file
\* changes only by being removed by the cleanup at the end.
C18_Selection ==
    InPipeline =>
        /\ tables = Selected
        /\ Len(Attempted) <= Len(Selected)
        /\ Attempted = SubSeq(Selected, 1, Len(Attempted))
        /\ (RunEnded /\ Len(Attempted) < Len(Selected)) =>
               args.fail_fast /\ ~trace[Len(trace)].ok
        /\ \A t \in NotSelected :
               /\ parquet[t] = parquet0[t]
               /\ gcs[t] = cloud0.gcs[t]
               /\ bq[t] = cloud0.bq[t]
               /\ raw[t] = raw0[t] \/ (cleanup_called /\ raw[t] = "absent")

\* A run on the second table of the catalogue alone, which succeeds and
\* leaves the raw file of the first where it was.
C18_Witness ==
    /\ RunEnded
    /\ args.tables = <<Config_tables[2]>>
    /\ Attempted = <<Config_tables[2]>>
    /\ trace[1].ok
    /\ raw0[Config_tables[1]] = "complete"
    /\ raw[Config_tables[1]] = "complete"

\* ------------------------------------------------------------------ C19

\* C19: a call of execute_sql does not raise; it returns success with the
\* row set, no error and the row count of the row set when all four calls
\* went through, and otherwise failure with no row set, an error and a row
\* count of 0.
C19_NeverRaises ==
    sqlcall.ret # <<>> =>
        LET e == sqlcall.env[1]
            r == sqlcall.ret[1]
            all_ok == /\ e.client = "ok" /\ e.query = "ok"
                      /\ e.result = "ok" /\ e.to_dataframe = "ok"
        IN  /\ ~r.raised
            /\ r.success <=> all_ok
            /\ r.success =>
                   /\ r.data # <<>> /\ r.error = <<>>
                   /\ r.rows_returned = Len(r.data[1])
                   /\ r.rows_returned = e.rows
            /\ ~r.success =>
                   r.data = <<>> /\ r.error # <<>> /\ r.rows_returned = 0

\* The job answered with two rows and their conversion to a data frame
\* failed: a failure record with a row count of 0.
C19_Witness ==
    /\ sqlcall.ret # <<>>
    /\ sqlcall.env[1].result = "ok" /\ sqlcall.env[1].to_dataframe = "error"
    /\ sqlcall.env[1].rows = 2
    /\ ~sqlcall.ret[1].success
    /\ sqlcall.ret[1].error = <<"to_dataframe">>
    /\ sqlcall.ret[1].rows_returned = 0

\* ------------------------------------------------------------------ C20

\* C20: a process_table call returns False exactly when one of its stages
\* raised, whichever stage it was, and no error leaves it; a process with a
\* valid configuration and no --dry-run that has ended went through the
\* summary of run_pipeline and exits with the status it returned; a
\* process that ended elsewhere had an invalid configuration or was a dry
\* run, and made no call.
C20_ErrorsContained ==
    /\ \A k \in DOMAIN trace :
           /\ trace[k].ok <=> trace[k].failed = "none"
           /\ trace[k].failed \in LocalStages \cup {"load_to_bigquery", "none"}
    /\ pc = "loop" => i <= Len(tables)
    /\ (pc = "exit" /\ validate(config) = "ok" /\ ~args.dry_run) =>
           /\ returned \in 0..2
           /\ exit_code = returned
           /\ Len(trace) >= 1
    /\ (pc = "exit" /\ returned = -1) =>
           /\ validate(config) # "ok" \/ args.dry_run
           /\ trace = <<>>

\* A run of two calls, the first failing in the load and the second in the
\* download, which ends in the summary with status 2.
C20_Witness ==
    /\ RunEnded
    /\ Len(trace) = 2
    /\ trace[1].failed = "load_to_bigquery"
    /\ trace[2].failed = "download_file"
    /\ returned = 2 /\ exit_code = 2

\* ------------------------------------------------------------------ C21

\* The four stages in the order of process_table.
StageOrder == <<"download_file", "convert_to_parquet", "upload_to_gcs",
                "load_to_bigquery">>
StageIndex(stage) == CHOOSE n \in DOMAIN StageOrder : StageOrder[n] = stage

\* C21: the stage calls of a process_table call follow the order download,
\* conversion, upload, load, each at most once; a stage that raised is the
\* last one called and the call returns False; the call returns True only
\* when no stage raised, the upload was called and, unless skip_bigquery,
\* the load too, on a raw file and a columnar file that are there.
C21_StageOrder ==
    \A k \in DOMAIN trace :
        LET c == trace[k]
        IN  /\ \A a, b \in DOMAIN c.stages :
                   a < b => StageIndex(c.stages[a]) < StageIndex(c.stages[b])
            /\ c.failed # "none" =>
                   /\ ~c.ok
                   /\ c.stages # <<>>
                   /\ c.stages[Len(c.stages)] = c.failed
            /\ c.ok =>
                   /\ c.failed = "none"
                   /\ Count(c.stages, "upload_to_gcs") = 1
                   /\ Count(c.stages, "load_to_bigquery") =
                          (IF args.skip_bigquery THEN 0 ELSE 1)
                   /\ c.post_raw # "absent"
                   /\ c.post_parquet = "present"

\* A call that went through all four stages, and one that stopped at a
\* failed conversion right after its download.
C21_Witness ==
    /\ Len(trace) = 2
    /\ trace[1].stages = StageOrder /\ trace[1].ok
    /\ trace[2].stages = <<"download_file", "convert_to_parquet">>
    /\ trace[2].failed = "convert_to_parquet"

\* ------------------------------------------------------------------ C22

\* C22, as claimed: without force_download a call downloads exactly when
\* the raw file is absent and converts exactly when the columnar file is
\* absent; with force_download it downloads and converts.
C22_Original ==
    \A k \in DOMAIN trace :
        LET c == trace[k]
        IN  IF args.force_download
            THEN /\ Count(c.stages, "download_file") = 1
                 /\ Count(c.stages, "convert_to_parquet") = 1
            ELSE /\ Count(c.stages, "download_file") = 1 <=> c.pre_raw = "absent"
                 /\ Count(c.stages, "convert_to_parquet") = 1
                        <=> c.pre_parquet = "absent"

\* C22, amended: the download is called exactly when force_download is set
\* or the raw file is absent; the conversion is called exactly when the
\* download did not raise and force_download is set or the columnar file is
\* absent.
C22_CacheRules ==
    \A k \in DOMAIN trace :
        LET c == trace[k]
        IN  /\ Count(c.stages, "download_file") = 1
                   <=> (args.force_download \/ c.pre_raw = "absent")
            /\ Count(c.stages, "convert_to_parquet") = 1
                   <=> /\ c.failed # "download_file"
                       /\ args.force_download \/ c.pre_parquet = "absent"

\* A forced call on a table whose two files exist downloads and converts
\* again, in a run whose other call found its files and did neither.
C22_Witness ==
    \E k \in DOMAIN trace :
        /\ args.force_download
        /\ trace[k].pre_raw = "complete" /\ trace[k].pre_parquet = "present"
        /\ trace[k].stages[1] = "download_file"
        /\ trace[k].stages[2] = "convert_to_parquet"

\* ------------------------------------------------------------------ C23

\* C23: a run makes at most one process_table call per position of the
\* table list, in list order, and a call issues each stage primitive at
\* most once, so that no stage is issued twice for one entry of the list,
\* failed or not.
C23_NoRetry ==
    /\ Len(trace) <= Len(tables)
    /\ \A k \in DOMAIN trace :
           /\ trace[k].pos = k
           /\ trace[k].table = tables[k]
           /\ \A n \in DOMAIN StageOrder :
                  Count(trace[k].stages, StageOrder[n]) <= 1
           /\ Len(trace[k].stages) <= Len(StageOrder)

\* A run of two different tables whose first call failed at the download:
\* the second call is for the second table, and the run has ended.
C23_Witness ==
    /\ RunEnded
    /\ Len(trace) = 2
    /\ trace[1].failed = "download_file" /\ trace[1].stages = <<"download_file">>
    /\ trace[2].table # trace[1].table
    /\ returned = 1

\* ------------------------------------------------------------------ C24

\* The tables at the positions before the current one have their outcome in
\* the Run Result.
EarlierRecorded ==
    \A p \in 1..(seqrun.pos - 1) : seqrun.list[p] \in DOMAIN seqrun.results

\* A step of the loop: the position changes only by one, from a table
\* whose call has returned and whose outcome is stored as returned; a
\* stage is called only for the current position, during its call.
OneTableAtATime ==
    /\ seqrun'.pos # seqrun.pos =>
           /\ seqrun'.pos = seqrun.pos + 1
           /\ seqrun.phase = "recorded"
           /\ seqrun.stage = 5
           /\ seqrun.list[seqrun.pos] \in DOMAIN seqrun.results
           /\ seqrun.results[seqrun.list[seqrun.pos]] = seqrun.ok
    /\ seqrun'.calls > seqrun.calls =>
           /\ seqrun'.pos = seqrun.pos
           /\ seqrun.phase = "stages"

\* C24: while the stages of the table at a position are being called, every
\* earlier position has its outcome in the Run Result; the loop moves to
\* the next position only from a table whose process_table call has
\* returned and whose outcome is stored, and a stage is called only for the
\* current position, which never goes back.
C24_Sequential ==
    [](seqrun.phase = "stages" => EarlierRecorded) /\ [][OneTableAtATime]_vars

\* The upload of the second table is about to be called after its download
\* and conversion, the first table having failed and its failure being
\* stored.
C24_Witness ==
    /\ Len(seqrun.list) = 2 /\ seqrun.list[1] # seqrun.list[2]
    /\ seqrun.pos = 2 /\ seqrun.phase = "stages"
    /\ seqrun.stage = 3 /\ seqrun.calls = 2
    /\ seqrun.results = put(NoResults, seqrun.list[1], FALSE)

\* ------------------------------------------------------------------ C25

\* C25: a load_to_bigquery call starts its load job only after its
\* ensure_dataset_exists went through, on a dataset that exists; it has
\* returned normally only with its job done, and a job that is done has
\* written its table from the object of the bucket; while the job runs the
\* call has not returned, and a call whose ensure step or job failed has
\* raised.
C25_LoadOrder ==
    \A c \in Callers :
        /\ lpc[c] \in {"load_job", "result", "get_table"} =>
               dataset /\ lseen[c] \in {"found", "missing"}
        /\ ljob[c] # "none" => dataset /\ lseen[c] \in {"found", "missing"}
        /\ lresult[c] = "ok" => ljob[c] = "DONE" /\ lpc[c] = "idle"
        /\ ljob[c] = "DONE" =>
               bq[caller_table(c)] = <<gcs[caller_table(c)]>>
        /\ ljob[c] = "RUNNING" => lresult[c] = "running" /\ lpc[c] = "result"
        /\ ljob[c] = "FAILED" => lresult[c] = "JobError" /\ lpc[c] = "idle"
        /\ lresult[c] \in {"EnsureError", "Conflict"} =>
               ljob[c] = "none" /\ lpc[c] = "idle"

\* One caller has created the dataset and has returned with its job done,
\* while the job of another caller has failed and its call has raised.
C25_Witness ==
    \E c, d \in Callers :
        /\ lseen[c] = "missing" /\ lrequests[c] = 1
        /\ lresult[c] = "ok" /\ ljob[c] = "DONE"
        /\ ljob[d] = "FAILED" /\ lresult[d] = "JobError"

\* ------------------------------------------------------------------ C26

\* Call k of the run ran its load job to the end, and no later call on the
\* same table started a load.
LastLoad(k) ==
    /\ "load_to_bigquery" = trace[k].stages[Len(trace[k].stages)]
    /\ trace[k].ok
    /\ \A m \in (k + 1)..Len(trace) :
           trace[m].table = trace[k].table =>
               Count(trace[m].stages, "load_to_bigquery") = 0

\* C26: over one run and the run after it, a bronze table never holds the
\* rows of more than one object generation, the generation it holds has
\* been uploaded, and after the last successful load of a table it holds
\* the rows of the object that this call uploaded.
C26_Overwrite ==
    /\ \A t \in Names :
           /\ Len(bq[t]) <= 1
           /\ bq[t] # <<>> => bq[t][1] \in 1..gcs[t]
    /\ \A k \in DOMAIN trace :
           (trace[k].stages # <<>> /\ LastLoad(k)) =>
               bq[trace[k].table] = <<trace[k].post_gcs>>

\* In the run after a run that loaded a table, the table has been loaded
\* again and holds the rows of the second object alone.
C26_Witness ==
    /\ reinvoked
    /\ \E k \in DOMAIN trace :
           /\ trace[k].table \in DOMAIN prev.results
           /\ prev.results[trace[k].table]
           /\ cloud0.bq[trace[k].table] = <<1>>
           /\ trace[k].stages # <<>> /\ LastLoad(k)
           /\ bq[trace[k].table] = <<2>>

\* ------------------------------------------------------------------ C27

\* Call k is the last call of the run on its table.
LastOccurrence(k) ==
    \A m \in (k + 1)..Len(trace) : trace[m].table # trace[k].table

\* The Run Result holds one entry per name called, with the outcome of the
\* last call on that name, and when the run has returned its status and its
\* cleanup decision are those computed from these entries.
LastOutcomes ==
    /\ \A k \in DOMAIN trace : trace[k].table = tables[k]
    /\ pc \in {"loop", "summary"} \/ RunEnded =>
           /\ DOMAIN results = {trace[k].table : k \in DOMAIN trace}
           /\ \A k \in DOMAIN trace :
                  LastOccurrence(k) => results[trace[k].table] = trace[k].ok
    /\ RunEnded =>
           /\ returned = exit_status(results)
           /\ cleanup_called = should_cleanup(args.cleanup, results)

\* C27, as claimed: when a run on a list with a repeated name has returned,
\* every position of the list, so every occurrence of the name, has had its
\* call, and the Run Result, the status and the cleanup decision are those
\* of the last calls.
C27_Original ==
    /\ LastOutcomes
    /\ (RunEnded /\ \E a, b \in DOMAIN tables : a # b /\ tables[a] = tables[b]) =>
           Len(trace) = Len(tables)

\* C27, amended: the calls of a run are on the positions of the list in
\* order; all positions are called unless fail_fast is set and a call
\* failed, and then the failed call is the last one and no position after
\* it, a later occurrence of the same name included, is called. The Run
\* Result, the status and the cleanup decision are those of the last calls
\* made.
C27_LastOutcome ==
    /\ LastOutcomes
    /\ RunEnded =>
           /\ ~args.fail_fast => Len(trace) = Len(tables)
           /\ args.fail_fast =>
                  /\ \A k \in 1..(Len(trace) - 1) : trace[k].ok
                  /\ Len(trace) < Len(tables) => ~trace[Len(trace)].ok

\* A run on one name twice, with cleanup: the first call failed, the second
\* succeeded; the Run Result holds the success alone, the status is 0 and
\* the cleanup ran.
C27_Witness ==
    /\ RunEnded
    /\ Len(trace) = 2 /\ trace[1].table = trace[2].table
    /\ ~trace[1].ok /\ trace[2].ok
    /\ results = put(NoResults, trace[2].table, TRUE)
    /\ returned = 0 /\ cleanup_called

\* ------------------------------------------------------------------ C28

\* The call found no raw file and found the columnar file, without
\* force_download.
RawGoneParquetKept(c) ==
    ~args.force_download /\ c.pre_raw = "absent" /\ c.pre_parquet = "present"

\* C28, as claimed: such a call downloads, does not convert, uploads and
\* loads.
C28_Original ==
    \A k \in DOMAIN trace :
        RawGoneParquetKept(trace[k]) =>
            trace[k].stages = <<"download_file", "upload_to_gcs",
                                "load_to_bigquery">>

\* C28, amended: such a call downloads and never converts; when the
\* download did not raise it uploads the columnar file it found, and it
\* loads exactly when that upload did not raise and skip_bigquery is not
\* set.
C28_ConvertByParquetOnly ==
    \A k \in DOMAIN trace :
        RawGoneParquetKept(trace[k]) =>
            LET c == trace[k]
            IN  /\ c.stages[1] = "download_file"
                /\ Count(c.stages, "convert_to_parquet") = 0
                /\ c.post_parquet = "present"
                /\ Count(c.stages, "upload_to_gcs") =
                       (IF c.failed = "download_file" THEN 0 ELSE 1)
                /\ Count(c.stages, "load_to_bigquery") =
                       (IF c.failed \in {"download_file", "upload_to_gcs"}
                           \/ args.skip_bigquery
                        THEN 0 ELSE 1)

\* Such a call that downloaded, uploaded and loaded with success.
C28_Witness ==
    \E k \in DOMAIN trace :
        /\ RawGoneParquetKept(trace[k])
        /\ trace[k].stages = <<"download_file", "upload_to_gcs", "load_to_bigquery">>
        /\ trace[k].ok
        /\ trace[k].post_raw = "complete"

\* ------------------------------------------------------------------ C29

\* C29: a run that returned 0 with cleanup set has invoked the cleanup;
\* after the cleanup no table has a raw file, in the table list or outside
\* it, the columnar file of a table outside the list is as the process found
\* it, and the columnar file of a table of the list is as its last call left
\* it.
C29_FolderWide ==
    /\ (RunEnded /\ returned = 0 /\ args.cleanup) => cleanup_called
    /\ (RunEnded /\ cleanup_called) =>
           /\ \A t \in Names : raw[t] = "absent"
           /\ \A t \in NotSelected : parquet[t] = parquet0[t]
           /\ \A k \in DOMAIN trace :
                  LastOccurrence(k) =>
                      parquet[trace[k].table] = trace[k].post_parquet

\* A successful run with cleanup on the second table of the catalogue
\* alone: the raw file of the first table, which was there, is gone, and its
\* columnar file is still there.
C29_Witness ==
    /\ RunEnded /\ returned = 0 /\ cleanup_called
    /\ args.tables = <<Config_tables[2]>>
    /\ raw0[Config_tables[1]] = "complete" /\ raw[Config_tables[1]] = "absent"
    /\ parquet0[Config_tables[1]] = "present"
    /\ parquet[Config_tables[1]] = "present"
    /\ parquet[Config_tables[2]] = "present"

\* ------------------------------------------------------------------ C30

\* C30, as claimed: a command started with --dry-run on an invalid
\* configuration ends with status 2, and one that ends with status 0 had a
\* valid configuration.
C30_ValidateFirst ==
    pc = "exit" =>
        /\ validate(config) # "ok" => exit_code = 2
        /\ exit_code = 0 => validate(config) = "ok"

\* ------------------------------------------------------------------ C31

\* The loop of this run ended at the fail-fast break: fail_fast was set and
\* the last process_table call returned False.
Aborted ==
    /\ RunEnded
    /\ args.fail_fast
    /\ trace # <<>>
    /\ ~trace[Len(trace)].ok

\* Some process_table call before the last one of this run returned True.
SucceededBeforeLast == \E k \in 1..(Len(trace) - 1) : trace[k].ok

\* C31, as claimed: a run aborted by fail-fast does not return 0 and does
\* not clean up; it returns 2 when no table recorded before the abort
\* succeeded and 1 otherwise.
C31_AbortStatus ==
    Aborted =>
        /\ returned # 0
        /\ ~cleanup_called
        /\ returned = (IF SucceededBeforeLast THEN 1 ELSE 2)

\* ------------------------------------------------------------------ C32

\* run_agent has ended, by a return or by an error it did not catch.
AgentEnded == agent.pc \in {"done", "raised"}

\* The usage objects of the first n responses received, added up.
UsageSum(n) ==
    LET RECURSIVE sum(_)
        sum(m) == IF m = 0
                  THEN [prompt_tokens |-> 0, completion_tokens |-> 0,
                        total_tokens |-> 0]
                  ELSE add_usage(sum(m - 1), agent.responses[m].usage)
    IN  sum(n)

\* The responses received that carry no tool call.
Final == {n \in DOMAIN agent.responses : agent.responses[n].tool_calls = <<>>}

\* C32, as claimed: run_agent makes at most 3 model calls; a response
\* without tool calls is the last one received and is returned as the answer
\* with error none; when 3 responses with tool calls have been received the
\* call ends by returning the fixed apology with error "Max iterations
\* reached" and data none; the usage returned is the sum over the responses
\* received.
C32_ThreeCalls ==
    /\ Len(agent.responses) <= max_iterations
    /\ \A n \in Final :
           /\ n = Len(agent.responses)
           /\ agent.pc = "done"
           /\ agent.ret[1].answer = agent.responses[n].content
           /\ agent.ret[1].error = <<>>
    /\ (AgentEnded /\ Final = {} /\ Len(agent.responses) = max_iterations) =>
           /\ agent.ret # <<>>
           /\ agent.ret[1].answer = apology_result(<<>>, <<>>).answer
           /\ agent.ret[1].error = <<"Max iterations reached">>
           /\ agent.ret[1].data = <<>>
    /\ agent.ret # <<>> =>
           agent.ret[1].usage = UsageSum(Len(agent.responses))

\* ------------------------------------------------------------------ C33

\* The position of the last assistant message of the message list.
LastAssistant ==
    CHOOSE m \in DOMAIN agent.messages :
        /\ agent.messages[m].role = "assistant"
        /\ \A n \in DOMAIN agent.messages :
               agent.messages[n].role = "assistant" => n <= m

\* The tool calls of the latest response that the loop has passed.
Passed ==
    LET tcs == agent.responses[Len(agent.responses)].tool_calls
    IN  IF agent.pc = "tools" THEN SubSeq(tcs, 1, agent.k - 1) ELSE tcs

\* The ids of the tool calls of tcs that name the tool of TOOLS, in order.
ToolIds(tcs) ==
    LET named == SelectSeq(tcs, LAMBDA tc : tc.name = "execute_bigquery_sql")
    IN  [j \in DOMAIN named |-> named[j].id]

\* The tool messages of the message list that carry the id.
Answers(id) ==
    {m \in DOMAIN agent.messages :
        /\ agent.messages[m].role = "tool"
        /\ agent.messages[m].tool_call_id = id}

\* C33: while run_agent goes through the tool calls of a response, and when
\* it makes the next model call or returns after them, the message list
\* ends with the assistant message carrying those tool calls followed by
\* one tool message per passed tool call named execute_bigquery_sql, with
\* that call's id and in the order of the calls; a passed tool call of
\* another name has no tool message in the list.
C33_ToolProtocol ==
    (/\ agent.pc \in {"tools", "call", "done"}
     /\ agent.responses # <<>>
     /\ agent.responses[Len(agent.responses)].tool_calls # <<>>) =>
        LET tcs == agent.responses[Len(agent.responses)].tool_calls
            tail == SubSeq(agent.messages, LastAssistant + 1,
                           Len(agent.messages))
        IN  /\ agent.messages[LastAssistant].tool_calls = tcs
            /\ Len(tail) = Len(ToolIds(Passed))
            /\ \A j \in DOMAIN tail :
                   /\ tail[j].role = "tool"
                   /\ tail[j].tool_call_id = ToolIds(Passed)[j]
            /\ \A j \in DOMAIN Passed :
                   Cardinality(Answers(Passed[j].id)) =
                       IF Passed[j].name = "execute_bigquery_sql" THEN 1 ELSE 0

\* The second model call is about to be made after a response with a call
\* to another tool followed by a call to execute_bigquery_sql: the message
\* list holds one tool message, with the id of the second call.
C33_Witness ==
    /\ agent.pc = "call"
    /\ Len(agent.responses) = 1
    /\ Len(agent.responses[1].tool_calls) = 2
    /\ agent.responses[1].tool_calls[1].name = "get_schema"
    /\ agent.responses[1].tool_calls[2].name = "execute_bigquery_sql"
    /\ Len(agent.messages) = 4
    /\ agent.messages[4].role = "tool"
    /\ agent.messages[4].tool_call_id = call_id(1, 2)

\* ------------------------------------------------------------------ C34

\* The positions of the tool messages of the message list: one per query
\* that was executed and answered, in the order of execution.
ToolMessages == {m \in DOMAIN agent.messages : agent.messages[m].role = "tool"}

\* The position of the tool message of the last query executed.
LastTool == CHOOSE m \in ToolMessages : \A n \in ToolMessages : n <= m

\* The query text of the tool call with the id, from the responses received.
QueryOf(id) ==
    LET tc == CHOOSE tc \in UNION {{r.tool_calls[j] : j \in DOMAIN r.tool_calls} :
                                      r \in {agent.responses[n] :
                                                n \in DOMAIN agent.responses}} :
                  tc.id = id
    IN  tc.arguments[2]

\* The sql_query of the dict returned is that of the last query executed,
\* and none exactly when none was executed.
LastQueryReturned ==
    /\ agent.ret[1].sql_query = <<>> <=> ToolMessages = {}
    /\ ToolMessages # {} =>
           agent.ret[1].sql_query =
               <<QueryOf(agent.messages[LastTool].tool_call_id)>>

\* The data of the dict returned is the rows of the last query executed when
\* it succeeded, and none when it failed or none was executed.
LastDataReturned ==
    agent.ret[1].data =
        IF ToolMessages # {} /\ agent.messages[LastTool].content.success
        THEN <<agent.messages[LastTool].content.data>>
        ELSE <<>>

\* C34, as claimed: whenever run_agent returns, sql_query and data are
\* those of the last query executed.
C34_Original ==
    agent.ret # <<>> => (LastQueryReturned /\ LastDataReturned)

\* C34, amended: whenever run_agent returns, sql_query is that of the last
\* query executed and none exactly when none was executed; with the final
\* answer data is the rows of the last query when it succeeded and none when
\* it failed, whatever earlier queries did; after the last pass of the loop
\* data is none whatever the last query did.
C34_LastQuery ==
    agent.ret # <<>> =>
        /\ LastQueryReturned
        /\ agent.ret[1].error = <<>> => LastDataReturned
        /\ agent.ret[1].error # <<>> => agent.ret[1].data = <<>>

\* The final answer is returned after a first query that succeeded and a
\* second, different one that failed: sql_query is the second, data is none.
C34_Witness ==
    /\ agent.ret # <<>>
    /\ agent.ret[1].error = <<>>
    /\ Cardinality(ToolMessages) = 2
    /\ \E m \in ToolMessages : m < LastTool /\ agent.messages[m].content.success
    /\ ~agent.messages[LastTool].content.success
    /\ agent.ret[1].sql_query = <<"SELECT 2">>
    /\ QueryOf(agent.messages[LastTool].tool_call_id) = "SELECT 2"
    /\ agent.ret[1].data = <<>>

\* ------------------------------------------------------------------ C35

\* The sum of f over the entries of the sequence.
SumOver(seq, f(_)) ==
    LET RECURSIVE sum(_)
        sum(n) == IF n = 0 THEN 0 ELSE f(seq[n]) + sum(n - 1)
    IN  sum(Len(seq))

\* The sum of the counts of model_usage.
UsageCounts ==
    LET RECURSIVE sum(_)
        sum(S) == IF S = {} THEN 0
                  ELSE LET m == CHOOSE m \in S : TRUE
                       IN  stats.model_usage[m] + sum(S \ {m})
    IN  sum(DOMAIN stats.model_usage)

\* The totals of the object agree with its history.
TotalsAgree ==
    /\ stats.total_questions = Len(stats.query_history)
    /\ stats.total_questions = UsageCounts
    /\ stats.total_input_tokens =
           SumOver(stats.query_history, LAMBDA q : q.input_tokens)
    /\ stats.total_output_tokens =
           SumOver(stats.query_history, LAMBDA q : q.output_tokens)

\* A get_summary step leaves the totals, the counts and the history as they
\* were.
SummaryKeeps ==
    stats'.op = "get_summary" =>
        /\ stats'.total_questions = stats.total_questions
        /\ stats'.total_input_tokens = stats.total_input_tokens
        /\ stats'.total_output_tokens = stats.total_output_tokens
        /\ stats'.model_usage = stats.model_usage
        /\ stats'.query_history = stats.query_history

\* C35: after any sequence of add_query calls total_questions is the length
\* of query_history and the sum of the counts of model_usage, and the two
\* token totals are the sums of the token counts in query_history;
\* get_summary changes none of them.
C35_Totals == []TotalsAgree /\ [][SummaryKeeps]_vars

\* Three add_query calls, two of them for one model, and a summary taken
\* right after the third.
C35_Witness ==
    /\ stats.pc = "live"
    /\ stats.op = "get_summary"
    /\ stats.total_questions = 3
    /\ DOMAIN stats.model_usage = {"gpt-4o", "gpt-4o-mini"}
    /\ stats.model_usage["gpt-4o"] = 2
    /\ stats.total_input_tokens = 330
    /\ stats.summary # <<>>
    /\ stats.summary[1].total_questions = 3
    /\ stats.summary[1].total_tokens = 900

====
